---- MODULE Spec2Model ----
(***************************************************************************)
(* controlHub: the query facade and the two store adapters of              *)
(* backend/main.go, and the pagination controller of                       *)
(* frontend/src/App.jsx.                                                   *)
(*                                                                         *)
(* Time is counted in seconds: every window duration of the adapters is a  *)
(* whole number of seconds.  A text (the structured column, a content      *)
(* filter) is a sequence of one-character strings, so that LIKE, trim and  *)
(* the jsonb output are computed character by character.                   *)
(***************************************************************************)
EXTENDS Integers, Sequences, FiniteSets, Bags, TLC

(***************************************************************************)
(* Bounds of the model.                                                    *)
(***************************************************************************)
\* rows of a store in the adapter specification
MaxRows == 2
\* clock ticks in the adapter specification
MaxTicks == 2

\* the clock at the start of a run, in seconds
StartTime == 3000000
\* rows of the seed table at most one hour old, and older ones (under a day)
RecentRows == 100
OlderRows == 150
\* filter changes of a browsing session, and requests outstanding at once
MaxFilterChanges == 1
MaxInFlight == 2
\* rows a Charts fetch returns
MaxBatch == 2

\* time.Minute, time.Hour in seconds
Minute == 60
Hour == 3600
\* limit: 100 of fetchEvents and loadMore, and the facade's default
PageLimit == 100
DefaultLimit == 100

(***************************************************************************)
(* Texts.                                                                  *)
(***************************************************************************)
RECURSIVE LikeFrom(_, _, _, _)
\* SQL LIKE of text[i..] against pattern[j..]: % matches any run of
\* characters, _ matches exactly one character, anything else itself.
LikeFrom(text, i, pattern, j) ==
    IF j > Len(pattern) THEN i > Len(text)
    ELSE IF pattern[j] = "%"
         THEN \E k \in i..(Len(text) + 1) : LikeFrom(text, k, pattern, j + 1)
    ELSE IF i > Len(text) THEN FALSE
    ELSE IF pattern[j] = "_" \/ pattern[j] = text[i]
         THEN LikeFrom(text, i + 1, pattern, j + 1)
    ELSE FALSE

Like(text, pattern) == LikeFrom(text, 1, pattern, 1)

RECURSIVE JsonbOut(_)
\* structured::text of a jsonb column: the document is printed back with
\* a blank after every ':' and ',' and without the blanks of the input.
JsonbOut(s) ==
    IF s = <<>> THEN <<>>
    ELSE IF Head(s) = " " THEN JsonbOut(Tail(s))
    ELSE IF Head(s) \in {":", ","} THEN <<Head(s), " ">> \o JsonbOut(Tail(s))
    ELSE <<Head(s)>> \o JsonbOut(Tail(s))

(***************************************************************************)
(* The stores.  A table is a sequence of Event rows (main.go, type Event); *)
(* the same rows are loaded into both engines.  The relational column      *)
(* `structured` is jsonb (main.go: "Convert jsonb to text in SELECT"), so  *)
(* its text is what structured::text prints.                               *)
(***************************************************************************)
Event(ts, tool, topic, structured) ==
    [timestamp |-> ts, tool |-> tool, topic |-> topic, structured |-> structured]

\* A statement is its text, clause by clause, and its bound arguments.  A
\* clause is the SQL it adds and the value spliced in: ph = "?" is the next
\* positional argument, ph = "$" the argument numbered n, ph = "lit" the
\* integer n printed into the text by fmt.Sprintf, ph = "" nothing.
Clause(sql, ph, n) == [sql |-> sql, ph |-> ph, n |-> n]

NoFilter == ""

\* case-sensitive switch of queryClickHouse on params.TimeRange
chDuration(token) ==
    CASE token = "1m"  -> 1 * Minute
      [] token = "5m"  -> 5 * Minute
      [] token = "20m" -> 20 * Minute
      [] token = "1h"  -> 1 * Hour
      [] token = "5h"  -> 5 * Hour
      [] token = "1d"  -> 24 * Hour
      [] token = "1w"  -> 7 * 24 * Hour
      [] token = "1mo" -> 30 * 24 * Hour
      [] OTHER         -> 1 * Hour

\* the switch with the week counted in hours
pgDurationWeekInHours(token) ==
    CASE token = "1m"  -> 1 * Minute
      [] token = "5m"  -> 5 * Minute
      [] token = "20m" -> 20 * Minute
      [] token = "1h"  -> 1 * Hour
      [] token = "5h"  -> 5 * Hour
      [] token = "1d"  -> 24 * Hour
      [] token = "1w"  -> 7 * Hour
      [] token = "1mo" -> 30 * 24 * Hour
      [] OTHER         -> 1 * Hour

\* the same switch, written a second time in queryPostgreSQL
pgDuration(token) ==
    CASE token = "1m"  -> 1 * Minute
      [] token = "5m"  -> 5 * Minute
      [] token = "20m" -> 20 * Minute
      [] token = "1h"  -> 1 * Hour
      [] token = "5h"  -> 5 * Hour
      [] token = "1d"  -> 24 * Hour
      [] token = "1w"  -> 7 * 24 * Hour
      [] token = "1mo" -> 30 * 24 * Hour
      [] OTHER         -> 1 * Hour

\* the lower bound of an adapter that read the clock once, when it started
chLowerBoundFromStart(clock, token) == StartTime - chDuration(token)

\* time.Now().Add(-duration), evaluated inside the adapter at every call
chLowerBound(clock, token) == clock - chDuration(token)

pgLowerBound(clock, token) == clock - pgDuration(token)

\* "%"+params.Content+"%"
LikePattern(content) == <<"%">> \o content \o <<"%">>

\* a builder that prints the content pattern into the text
chStatementPrintsContent(params, clock) ==
    LET q0 == [text |-> <<Clause("SELECT timestamp, tool, topic, structured FROM events WHERE 1=1", "", 0)>>,
               args |-> <<>>]
        q1 == IF params.TimeRange # NoFilter
              THEN [text |-> Append(q0.text, Clause(" AND timestamp >= ", "?", 0)),
                    args |-> Append(q0.args, chLowerBound(clock, params.TimeRange))]
              ELSE q0
        q2 == IF params.Content # <<>>
              THEN [q1 EXCEPT !.text = Append(@, Clause(" AND structured LIKE ", "lit",
                                                        LikePattern(params.Content)))]
              ELSE q1
        order == Clause(" ORDER BY timestamp DESC", "", 0)
    IN  IF params.Limit > 0
        THEN IF params.Offset > 0
             THEN [q2 EXCEPT !.text = @ \o <<order, Clause(" LIMIT ", "lit", params.Limit),
                                                    Clause(" OFFSET ", "lit", params.Offset)>>]
             ELSE [q2 EXCEPT !.text = @ \o <<order, Clause(" LIMIT ", "lit", params.Limit)>>]
        ELSE [q2 EXCEPT !.text = Append(@, order)]

\* a builder whose switch is outside the test for an empty token, so that
\* the empty token takes the default of one hour
chStatementAlwaysWindowed(params, clock) ==
    LET q0 == [text |-> <<Clause("SELECT timestamp, tool, topic, structured FROM events WHERE 1=1", "", 0)>>,
               args |-> <<>>]
        q1 == [text |-> Append(q0.text, Clause(" AND timestamp >= ", "?", 0)),
               args |-> Append(q0.args, chLowerBound(clock, params.TimeRange))]
        q2 == IF params.Content # <<>>
              THEN [text |-> Append(q1.text, Clause(" AND structured LIKE ", "?", 0)),
                    args |-> Append(q1.args, LikePattern(params.Content))]
              ELSE q1
        order == Clause(" ORDER BY timestamp DESC", "", 0)
    IN  IF params.Limit > 0
        THEN IF params.Offset > 0
             THEN [q2 EXCEPT !.text = @ \o <<order, Clause(" LIMIT ", "lit", params.Limit),
                                                    Clause(" OFFSET ", "lit", params.Offset)>>]
             ELSE [q2 EXCEPT !.text = @ \o <<order, Clause(" LIMIT ", "lit", params.Limit)>>]
        ELSE [q2 EXCEPT !.text = Append(@, order)]

\* the statement queryClickHouse builds for params at time clock
chStatement(params, clock) ==
    LET q0 == [text |-> <<Clause("SELECT timestamp, tool, topic, structured FROM events WHERE 1=1", "", 0)>>,
               args |-> <<>>]
        q1 == IF params.TimeRange # NoFilter
              THEN [text |-> Append(q0.text, Clause(" AND timestamp >= ", "?", 0)),
                    args |-> Append(q0.args, chLowerBound(clock, params.TimeRange))]
              ELSE q0
        q2 == IF params.Content # <<>>
              THEN [text |-> Append(q1.text, Clause(" AND structured LIKE ", "?", 0)),
                    args |-> Append(q1.args, LikePattern(params.Content))]
              ELSE q1
        order == Clause(" ORDER BY timestamp DESC", "", 0)
    IN  IF params.Limit > 0
        THEN IF params.Offset > 0
             THEN [q2 EXCEPT !.text = @ \o <<order, Clause(" LIMIT ", "lit", params.Limit),
                                                    Clause(" OFFSET ", "lit", params.Offset)>>]
             ELSE [q2 EXCEPT !.text = @ \o <<order, Clause(" LIMIT ", "lit", params.Limit)>>]
        ELSE [q2 EXCEPT !.text = Append(@, order)]

\* a builder that prints the offset into the text, as the columnar one does
pgStatementPrintsOffset(params, clock) ==
    LET q0 == [text |-> <<Clause("SELECT timestamp, tool, topic, structured::text FROM events WHERE 1=1", "", 0)>>,
               args |-> <<>>, argIndex |-> 1]
        q1 == IF params.TimeRange # NoFilter
              THEN [text |-> Append(q0.text, Clause(" AND timestamp >= ", "$", q0.argIndex)),
                    args |-> Append(q0.args, pgLowerBound(clock, params.TimeRange)),
                    argIndex |-> q0.argIndex + 1]
              ELSE q0
        q2 == IF params.Content # <<>>
              THEN [text |-> Append(q1.text, Clause(" AND structured::text LIKE ", "$", q1.argIndex)),
                    args |-> Append(q1.args, LikePattern(params.Content)),
                    argIndex |-> q1.argIndex + 1]
              ELSE q1
        q3 == [q2 EXCEPT !.text = Append(@, Clause(" ORDER BY timestamp DESC", "", 0))]
        q4 == IF params.Limit > 0
              THEN [text |-> Append(q3.text, Clause(" LIMIT ", "$", q3.argIndex)),
                    args |-> Append(q3.args, params.Limit),
                    argIndex |-> q3.argIndex + 1]
              ELSE q3
        q5 == IF params.Offset > 0
              THEN [q4 EXCEPT !.text = Append(@, Clause(" OFFSET ", "lit", params.Offset))]
              ELSE q4
    IN  [text |-> q5.text, args |-> q5.args]

\* the statement queryPostgreSQL builds for params at time clock; argIndex
\* numbers the next placeholder and is incremented after every bound
\* argument but the last (OFFSET)
pgStatement(params, clock) ==
    LET q0 == [text |-> <<Clause("SELECT timestamp, tool, topic, structured::text FROM events WHERE 1=1", "", 0)>>,
               args |-> <<>>, argIndex |-> 1]
        q1 == IF params.TimeRange # NoFilter
              THEN [text |-> Append(q0.text, Clause(" AND timestamp >= ", "$", q0.argIndex)),
                    args |-> Append(q0.args, pgLowerBound(clock, params.TimeRange)),
                    argIndex |-> q0.argIndex + 1]
              ELSE q0
        q2 == IF params.Content # <<>>
              THEN [text |-> Append(q1.text, Clause(" AND structured::text LIKE ", "$", q1.argIndex)),
                    args |-> Append(q1.args, LikePattern(params.Content)),
                    argIndex |-> q1.argIndex + 1]
              ELSE q1
        q3 == [q2 EXCEPT !.text = Append(@, Clause(" ORDER BY timestamp DESC", "", 0))]
        q4 == IF params.Limit > 0
              THEN [text |-> Append(q3.text, Clause(" LIMIT ", "$", q3.argIndex)),
                    args |-> Append(q3.args, params.Limit),
                    argIndex |-> q3.argIndex + 1]
              ELSE q3
        q5 == IF params.Offset > 0
              THEN [q4 EXCEPT !.text = Append(@, Clause(" OFFSET ", "$", q4.argIndex)),
                              !.args = Append(@, params.Offset)]
              ELSE q4
    IN  [text |-> q5.text, args |-> q5.args]

(***************************************************************************)
(* The engines, as far as the two statements use them: conjunction of the  *)
(* predicates, ORDER BY timestamp DESC, OFFSET, LIMIT.  Rows of equal      *)
(* timestamp come back in an order the engine chooses, so a statement has  *)
(* a set of possible results.                                              *)
(***************************************************************************)
\* the value spliced into clause k of the statement
ClauseValue(stmt, k) ==
    LET c == stmt.text[k]
    IN  CASE c.ph = "lit" -> c.n
          [] c.ph = "$"   -> stmt.args[c.n]
          [] c.ph = "?"   -> stmt.args[Cardinality({j \in 1..k : stmt.text[j].ph = "?"})]

HasClause(stmt, sql) == \E k \in 1..Len(stmt.text) : stmt.text[k].sql = sql

ValueOf(stmt, sql) ==
    ClauseValue(stmt, CHOOSE k \in 1..Len(stmt.text) : stmt.text[k].sql = sql)

\* the predicates of the statement's WHERE, with their bound values
Predicates(stmt) ==
    [since   |-> IF HasClause(stmt, " AND timestamp >= ")
                 THEN <<ValueOf(stmt, " AND timestamp >= ")>> ELSE <<>>,
     like    |-> IF HasClause(stmt, " AND structured LIKE ")
                 THEN <<ValueOf(stmt, " AND structured LIKE ")>> ELSE <<>>,
     likeTxt |-> IF HasClause(stmt, " AND structured::text LIKE ")
                 THEN <<ValueOf(stmt, " AND structured::text LIKE ")>> ELSE <<>>]

\* WHERE 1=1 AND ... : does the row satisfy every predicate
Satisfies(preds, row) ==
    /\ preds.since # <<>> => row.timestamp >= preds.since[1]
    /\ preds.like # <<>> => Like(row.structured, preds.like[1])
    /\ preds.likeTxt # <<>> => Like(JsonbOut(row.structured), preds.likeTxt[1])

\* the select list: structured as stored, or structured::text
Project(stmt, row) ==
    IF stmt.text[1].sql = "SELECT timestamp, tool, topic, structured::text FROM events WHERE 1=1"
    THEN [row EXCEPT !.structured = JsonbOut(@)]
    ELSE row

PermsOf(run) ==
    {[i \in 1..Len(run) |-> run[f[i]]] : f \in Permutations(1..Len(run))}

RECURSIVE TieOrders(_)
\* every arrangement of a timestamp-sorted sequence that permutes rows of
\* equal timestamp among themselves
TieOrders(s) ==
    IF \A i \in 1..(Len(s) - 1) : s[i].timestamp # s[i + 1].timestamp THEN {s}
    ELSE LET k == CHOOSE n \in 1..Len(s) :
                    /\ \A i \in 1..n : s[i].timestamp = s[1].timestamp
                    /\ n < Len(s) => s[n + 1].timestamp # s[1].timestamp
         IN  {p \o r : p \in PermsOf(SubSeq(s, 1, k)),
                       r \in TieOrders(SubSeq(s, k + 1, Len(s)))}

\* an engine that sorts by ascending timestamp
OrderByTimestampAsc(rows) ==
    TieOrders(SortSeq(rows, LAMBDA a, b : a.timestamp < b.timestamp))

\* ORDER BY timestamp DESC: the orders an engine may return the rows in
OrderByTimestampDesc(rows) ==
    TieOrders(SortSeq(rows, LAMBDA a, b : a.timestamp > b.timestamp))

\* OFFSET o LIMIT l of an ordered result
Page(ordered, hasLimit, lim, off) ==
    LET from == (IF off > 0 THEN off ELSE 0) + 1
        to   == IF hasLimit /\ from + lim - 1 < Len(ordered)
                THEN from + lim - 1 ELSE Len(ordered)
    IN  SubSeq(ordered, from, to)

\* the results the engine may return for the statement over the table
Execute(stmt, rows) ==
    LET preds == Predicates(stmt)
        matching == SelectSeq(rows, LAMBDA row : Satisfies(preds, row))
        projected == [i \in 1..Len(matching) |-> Project(stmt, matching[i])]
        orders == IF HasClause(stmt, " ORDER BY timestamp DESC")
                  THEN OrderByTimestampDesc(projected)
                  ELSE PermsOf(projected)
        hasLimit == HasClause(stmt, " LIMIT ")
        lim == IF hasLimit THEN ValueOf(stmt, " LIMIT ") ELSE 0
        off == IF HasClause(stmt, " OFFSET ") THEN ValueOf(stmt, " OFFSET ") ELSE 0
    IN  {Page(o, hasLimit, lim, off) : o \in orders}

(***************************************************************************)
(* The adapters.  An outcome is the pair (events, err) the Go function     *)
(* returns: err = "" for nil.                                              *)
(***************************************************************************)
Outcome(result, err) == [events |-> result, err |-> err]

Prefixes(s) == {SubSeq(s, 1, n) : n \in 0..Len(s)}

\* what running the built statement returns: the rows, or (nil, err) when
\* Query fails or the Scan of a row fails, or the rows read so far with
\* rows.Err()
RunStatement(stmt, rows) ==
    LET results == Execute(stmt, rows)
    IN  {Outcome(r, "") : r \in results}
        \cup {Outcome(<<>>, "query failed")}
        \cup {Outcome(<<>>, "scan failed") : r \in {x \in results : x # <<>>}}
        \cup {Outcome(p, "rows error") : p \in UNION {Prefixes(r) : r \in results}}

queryClickHouse(params, clock, rows) == RunStatement(chStatement(params, clock), rows)

queryPostgreSQL(params, clock, rows) == RunStatement(pgStatement(params, clock), rows)

(***************************************************************************)
(* The facade, getEvents.  A request is the query string: every parameter  *)
(* is <<>> when absent and <<value>> when present.                         *)
(***************************************************************************)
Present(v) == <<v>>

Absent == <<>>

OrZero(opt, zero) == IF opt = Absent THEN zero ELSE opt[1]

\* c.ShouldBindQuery(&params): QueryParams has the fields TimeRange,
\* Content, Database, Limit and Offset; any other parameter of the query
\* string (topic) is dropped, an absent one is the zero value
ShouldBindQuery(req) ==
    [TimeRange |-> OrZero(req.timeRange, ""),
     Content   |-> OrZero(req.content, <<>>),
     Database  |-> OrZero(req.database, ""),
     Limit     |-> OrZero(req.limit, 0),
     Offset    |-> OrZero(req.offset, 0)]

\* defaults that replace a negative limit only and leave the store empty
WithDefaultsNegativeOnly(params) ==
    IF params.Limit < 0 THEN [params EXCEPT !.Limit = DefaultLimit] ELSE params

\* "Set defaults"
WithDefaults(params) ==
    LET p1 == IF params.Limit <= 0 THEN [params EXCEPT !.Limit = DefaultLimit] ELSE params
    IN  IF p1.Database = "" THEN [p1 EXCEPT !.Database = "clickhouse"] ELSE p1

\* the adapter calls of one run of getEvents, in order: the if / else on
\* params.Database holds the only two call sites, outside any loop
AdapterCalls(params) ==
    <<IF params.Database = "clickhouse" THEN "queryClickHouse" ELSE "queryPostgreSQL">>

\* a facade that sends only the value "postgresql" to the relational adapter
DispatchByRelationalName(params, clock, rows) ==
    IF params.Database = "postgresql"
    THEN queryPostgreSQL(params, clock, rows)
    ELSE queryClickHouse(params, clock, rows)

\* the adapter the facade calls
Dispatch(params, clock, rows) ==
    IF params.Database = "clickhouse"
    THEN queryClickHouse(params, clock, rows)
    ELSE queryPostgreSQL(params, clock, rows)

\* an answer that passes on the rows read before the error
RespondWithRowsRead(outcome, params) ==
    IF outcome.err # ""
    THEN [status |-> 500, error |-> outcome.err, events |-> outcome.events]
    ELSE [status |-> 200, events |-> outcome.events,
          count |-> Len(outcome.events), params |-> params]

\* an answer whose count is the limit asked for
RespondWithLimitAsCount(outcome, params) ==
    IF outcome.err # ""
    THEN [status |-> 500, error |-> outcome.err]
    ELSE [status |-> 200, events |-> outcome.events,
          count |-> params.Limit, params |-> params]

\* c.JSON(...) of an adapter outcome
Respond(outcome, params) ==
    IF outcome.err # ""
    THEN [status |-> 500, error |-> outcome.err]
    ELSE [status |-> 200, events |-> outcome.events,
          count |-> Len(outcome.events), params |-> params]

\* the responses GET /api/events may give to req at time clock
getEvents(req, clock, rows) ==
    LET params == WithDefaults(ShouldBindQuery(req))
    IN  {Respond(o, params) : o \in Dispatch(params, clock, rows)}

(***************************************************************************)
(* State.                                                                  *)
(*                                                                         *)
(* The useState cells of App (App.jsx 19-30) and the requests the browser   *)
(* has sent and not yet seen settle; history that the claims speak of and  *)
(* the program does not store; and, for the specification of the adapters  *)
(* (SpecQuery), the server's clock, its table and the last request served. *)
(* A browsing session (Spec) is served from the seed table at a fixed      *)
(* clock and leaves the three server variables alone.                      *)
(***************************************************************************)
VARIABLES
    events,         \* useState([]): the accumulated buffer
    loading,        \* useState(false): a first-page fetch is running
    loadingMore,    \* useState(false): a next-page fetch is running
    error,          \* useState(null): "" is null
    timeRange,      \* useState('1h')
    contentFilter,  \* useState('')
    topicFilter,    \* useState('')
    database,       \* useState('clickhouse')
    offset,         \* useState(0)
    hasMore,        \* useState(true)
    inflight,       \* bag of outstanding requests (health checks and event fetches)
    epoch,          \* history: number of filter changes so far
    shortPage,      \* history: a page shorter than the limit resolved since the last first-page fetch began
    failedFetch,    \* history: an events fetch failed since the last first-page fetch began
    clean,          \* history: one first-page fetch for the current filter, alone, and no failure since
    afterFailure,   \* history: the filter was last changed while an error was shown or a fetch had failed
    steady,         \* history: a first-page fetch for the current filter began alone, and only scroll triggers and fetch completions since
    now,            \* SpecQuery: the server's clock
    table,          \* SpecQuery: the rows of the events table
    lastCall,       \* SpecQuery: the call being served (<<>> when none) and what it returns
    chartStore,     \* SpecCharts: the rows the server answers a Charts fetch with
    zone,           \* SpecCharts: the browser's time zone, seconds east of UTC
    chartTopic,     \* Charts useState(''): topicFilter
    chartLoading,   \* Charts useState(false): loading
    chartError,     \* Charts useState(null): error, "" is null
    chartEvents,    \* Charts useState([]): events
    availableFields, \* Charts useState([])
    selectedFields, \* Charts useState([])
    chartData,      \* Charts useState([])
    chartPending    \* the Charts fetch awaited (<<>> when none) and the selectedFields its closure holds

appVars == <<events, loading, loadingMore, error, timeRange, contentFilter,
             topicFilter, database, offset, hasMore, inflight>>

historyVars == <<epoch, shortPage, failedFetch, clean, afterFailure, steady>>

serverVars == <<now, table, lastCall>>

chartVars == <<chartStore, zone, chartTopic, chartLoading, chartError, chartEvents,
               availableFields, selectedFields, chartData, chartPending>>

vars == <<appVars, historyVars, serverVars, chartVars>>

\* the Charts view not mounted
NoCharts ==
    /\ chartStore = <<>>
    /\ zone = 0
    /\ chartTopic = <<>>
    /\ chartLoading = FALSE
    /\ chartError = ""
    /\ chartEvents = <<>>
    /\ availableFields = <<>>
    /\ selectedFields = <<>>
    /\ chartData = <<>>
    /\ chartPending = <<>>

(***************************************************************************)
(* The seed table of a browsing session: RecentRows rows of the last hour  *)
(* and OlderRows older rows of the last day, of distinct timestamps; every *)
(* second row mentions "a".                                                *)
(***************************************************************************)
SeedRow(i) ==
    Event(IF i <= RecentRows THEN StartTime - i ELSE StartTime - Hour - i,
          "tool",
          IF i % 3 = 0 THEN <<"t">> ELSE <<"u">>,
          IF i % 2 = 0 THEN <<"{", "a", ":", "1", "}">> ELSE <<"{", "b", ":", "2", "}">>)

SeedTable == [i \in 1..(RecentRows + OlderRows) |-> SeedRow(i)]

\* what the user can select or type
TimeRanges == {"1h", "1d"}
Databases == {"clickhouse", "postgresql"}
ContentInputs == {<<>>, <<"a">>}
TopicInputs == {<<>>, <<"t">>}

(***************************************************************************)
(* The client.                                                             *)
(***************************************************************************)
RECURSIVE TrimStart(_)
TrimStart(s) == IF s # <<>> /\ Head(s) = " " THEN TrimStart(Tail(s)) ELSE s

RECURSIVE TrimEnd(_)
TrimEnd(s) ==
    IF s # <<>> /\ s[Len(s)] = " " THEN TrimEnd(SubSeq(s, 1, Len(s) - 1)) ELSE s

\* String.prototype.trim
Trim(s) == TrimEnd(TrimStart(s))

\* the filter a render of App closes over
Filter(tr, cf, tf, db) ==
    [timeRange |-> tr, contentFilter |-> cf, topicFilter |-> tf, database |-> db]

CurrentFilter == Filter(timeRange, contentFilter, topicFilter, database)

\* const params = {...} of fetchEvents and of loadMore
BuildParams(f, currentOffset) ==
    [timeRange |-> Present(f.timeRange),
     limit     |-> Present(PageLimit),
     offset    |-> Present(currentOffset),
     content   |-> IF Trim(f.contentFilter) # <<>>
                   THEN Present(Trim(f.contentFilter)) ELSE Absent,
     topic     |-> IF Trim(f.topicFilter) # <<>>
                   THEN Present(Trim(f.topicFilter)) ELSE Absent,
     database  |-> IF f.database # "" THEN Present(f.database) ELSE Absent]

\* an outstanding request: kind is "health", "first" (fetchEvents) or "next"
\* (loadMore); f the filter its closure holds; ep the epoch it was sent in
Request(kind, f, currentOffset, ep) ==
    [kind |-> kind, f |-> f, currentOffset |-> currentOffset, ep |-> ep]

Outstanding == BagToSet(inflight)

EventFetches == {r \in Outstanding : r.kind # "health"}

Send(r) == inflight (+) SetToBag({r})

Settle(r) == inflight (-) SetToBag({r})

\* a validateStatus that refuses every status from 400 on
RejectedFrom400(resp) == ~(resp.status >= 200 /\ resp.status < 400)

\* axios rejects: no response (network error, timeout) or a status the
\* validateStatus callback refuses
Rejected(resp) == ~(resp.status >= 200 /\ resp.status < 500)

NetworkError == [status |-> 0, error |-> "Network Error"]

\* err.response?.data?.error || err.message || 'Failed to fetch data'
ErrorMessage(resp) == IF resp.error # "" THEN resp.error ELSE "Failed to fetch data"

\* response.data.events || []
NewEvents(resp) == IF "events" \in DOMAIN resp THEN resp.events ELSE <<>>

\* every filter the inputs can produce, and the offsets of whole pages
Filters ==
    {Filter(tr, cf, tf, db) : tr \in TimeRanges, cf \in ContentInputs,
                              tf \in TopicInputs, db \in Databases}

PageOffsets == {n * PageLimit : n \in 0..((RecentRows + OlderRows) \div PageLimit + 1)}

\* A browsing session is served from the seed table at the clock StartTime:
\* what GET /api/events may answer to a fetch of filter f at a whole-page
\* offset, tabulated once
SeedResponses ==
    {[f |-> f, currentOffset |-> o,
      responses |-> getEvents(BuildParams(f, o), StartTime, SeedTable)] :
        f \in Filters, o \in PageOffsets}

\* how axios.get of an event fetch may settle: with a response of the
\* server, or with none at all
Responses(r) ==
    LET known == {e \in SeedResponses : e.f = r.f /\ e.currentOffset = r.currentOffset}
    IN  (IF known # {}
         THEN (CHOOSE e \in known : TRUE).responses
         ELSE getEvents(BuildParams(r.f, r.currentOffset), StartTime, SeedTable))
        \cup {NetworkError}

\* a fetchEvents that leaves the error of an earlier failure on the screen
BeginFetchEventsKeepsError(f, ep, pending) ==
    /\ loading' = TRUE
    /\ offset' = 0
    /\ hasMore' = TRUE
    /\ error' = error
    /\ inflight' = pending (+) SetToBag({Request("first", f, 0, ep)})
    /\ shortPage' = FALSE
    /\ failedFetch' = FALSE
    /\ clean' = (ep = epoch /\ \A q \in BagToSet(pending) : q.kind = "health")
    /\ steady' = (ep = epoch /\ \A q \in BagToSet(pending) : q.kind = "health")
    /\ UNCHANGED <<events, loadingMore, timeRange, contentFilter, topicFilter,
                   database, epoch, afterFailure, serverVars, chartVars>>

\* fetchEvents(false, 0) up to its await, in a render that holds filter f:
\* setLoading(true), setOffset(0), setHasMore(true), setError(null), axios.get
BeginFetchEvents(f, ep, pending) ==
    /\ loading' = TRUE
    /\ offset' = 0
    /\ hasMore' = TRUE
    /\ error' = ""
    /\ inflight' = pending (+) SetToBag({Request("first", f, 0, ep)})
    /\ shortPage' = FALSE
    /\ failedFetch' = FALSE
    /\ clean' = (ep = epoch /\ \A q \in BagToSet(pending) : q.kind = "health")
    /\ steady' = (ep = epoch /\ \A q \in BagToSet(pending) : q.kind = "health")
    /\ UNCHANGED <<events, loadingMore, timeRange, contentFilter, topicFilter,
                   database, epoch, afterFailure, serverVars, chartVars>>

\* useEffect(checkHealth, [timeRange, database, topicFilter, contentFilter])
\* after a render with a changed filter f: axios.get('/api/health')
CheckHealth(f) ==
    /\ inflight' = Send(Request("health", f, 0, epoch + 1))
    /\ epoch' = epoch + 1
    /\ shortPage' = FALSE
    /\ failedFetch' = FALSE
    /\ clean' = FALSE
    /\ afterFailure' = (error # "" \/ failedFetch)
    /\ steady' = FALSE
    /\ UNCHANGED <<events, loading, loadingMore, error, offset, hasMore, serverVars, chartVars>>

CanChange == epoch < MaxFilterChanges /\ BagCardinality(inflight) < MaxInFlight

\* the time-range select: setTimeRange(e.target.value)
SetTimeRange(v) ==
    /\ CanChange /\ v # timeRange
    /\ timeRange' = v
    /\ CheckHealth(Filter(v, contentFilter, topicFilter, database))
    /\ UNCHANGED <<contentFilter, topicFilter, database>>

\* the sidebar buttons: setDatabase
SetDatabase(v) ==
    /\ CanChange /\ v # database
    /\ database' = v
    /\ CheckHealth(Filter(timeRange, contentFilter, topicFilter, v))
    /\ UNCHANGED <<timeRange, contentFilter, topicFilter>>

\* the content input: setContentFilter(e.target.value)
SetContentFilter(v) ==
    /\ CanChange /\ v # contentFilter
    /\ contentFilter' = v
    /\ CheckHealth(Filter(timeRange, v, topicFilter, database))
    /\ UNCHANGED <<timeRange, topicFilter, database>>

\* the topic input: setTopicFilter(e.target.value)
SetTopicFilter(v) ==
    /\ CanChange /\ v # topicFilter
    /\ topicFilter' = v
    /\ CheckHealth(Filter(timeRange, contentFilter, v, database))
    /\ UNCHANGED <<timeRange, contentFilter, database>>

\* checkHealth after its await, the health call answered: fetchEvents(false, 0)
\* of the render the effect ran in
HealthOk(r) ==
    /\ r \in Outstanding /\ r.kind = "health"
    /\ BeginFetchEvents(r.f, r.ep, Settle(r))

\* a checkHealth whose catch empties the buffer as the catch of fetchEvents does
HealthFailedClearsBuffer(r) ==
    /\ r \in Outstanding /\ r.kind = "health"
    /\ inflight' = Settle(r)
    /\ error' = "Cannot connect to backend server"
    /\ loading' = FALSE
    /\ events' = <<>>
    /\ clean' = FALSE
    /\ steady' = FALSE
    /\ UNCHANGED <<loadingMore, timeRange, contentFilter, topicFilter,
                   database, offset, hasMore, epoch, shortPage, failedFetch, afterFailure,
                   serverVars, chartVars>>

\* checkHealth after its await, the health call failed
HealthFailed(r) ==
    /\ r \in Outstanding /\ r.kind = "health"
    /\ inflight' = Settle(r)
    /\ error' = "Cannot connect to backend server"
    /\ loading' = FALSE
    /\ clean' = FALSE
    /\ steady' = FALSE
    /\ UNCHANGED <<events, loadingMore, timeRange, contentFilter, topicFilter,
                   database, offset, hasMore, epoch, shortPage, failedFetch, afterFailure,
                   serverVars, chartVars>>

\* the Refresh button (disabled while loading): fetchEvents(false, 0)
Refresh ==
    /\ ~loading
    /\ BagCardinality(inflight) < MaxInFlight
    /\ BeginFetchEvents(CurrentFilter, epoch, inflight)

\* handleContentFilterSubmit: fetchEvents(false, 0)
ContentFilterSubmit ==
    /\ BagCardinality(inflight) < MaxInFlight
    /\ BeginFetchEvents(CurrentFilter, epoch, inflight)

\* handleTopicFilterSubmit: fetchEvents(false, 0)
TopicFilterSubmit ==
    /\ BagCardinality(inflight) < MaxInFlight
    /\ BeginFetchEvents(CurrentFilter, epoch, inflight)

\* the table (and with it the scroll listener) is rendered
TableRendered == ~loading /\ events # <<>>

\* handleScroll near the bottom: loadMore() of the current render
Scroll ==
    /\ TableRendered
    /\ IF ~loadingMore /\ hasMore /\ ~loading
       THEN /\ BagCardinality(inflight) < MaxInFlight
            /\ loadingMore' = TRUE
            /\ inflight' = Send(Request("next", CurrentFilter, offset, epoch))
            /\ UNCHANGED <<events, loading, error, timeRange, contentFilter,
                           topicFilter, database, offset, hasMore, historyVars,
                           serverVars, chartVars>>
       ELSE UNCHANGED vars

\* a check that advances the offset past a short page as well
CheckMoreAlwaysAdvances(newEvents, currentOffset) ==
    /\ hasMore' = (Len(newEvents) >= PageLimit)
    /\ offset' = currentOffset + Len(newEvents)

\* "Check if we have more data", shared by fetchEvents and loadMore
CheckMore(newEvents, currentOffset) ==
    IF Len(newEvents) < PageLimit
    THEN hasMore' = FALSE /\ offset' = offset
    ELSE hasMore' = TRUE /\ offset' = currentOffset + Len(newEvents)

\* fetchEvents(false, 0) after its await
FirstPageSettles(r, resp) ==
    /\ r \in Outstanding /\ r.kind = "first"
    /\ inflight' = Settle(r)
    /\ IF Rejected(resp)
       THEN /\ error' = ErrorMessage(resp)
            /\ events' = <<>>
            /\ failedFetch' = TRUE
            /\ clean' = FALSE
            /\ UNCHANGED <<hasMore, offset, shortPage>>
       ELSE /\ events' = NewEvents(resp)
            /\ CheckMore(NewEvents(resp), r.currentOffset)
            /\ shortPage' = (shortPage \/ Len(NewEvents(resp)) < PageLimit)
            /\ UNCHANGED <<error, failedFetch, clean>>
    /\ loading' = FALSE
    /\ UNCHANGED <<loadingMore, timeRange, contentFilter, topicFilter, database,
                   epoch, afterFailure, steady, serverVars, chartVars>>

\* a loadMore whose catch forgets setLoadingMore(false)
NextPageSettlesKeepsFlag(r, resp) ==
    /\ r \in Outstanding /\ r.kind = "next"
    /\ inflight' = Settle(r)
    /\ IF Rejected(resp)
       THEN /\ failedFetch' = TRUE
            /\ clean' = FALSE
            /\ UNCHANGED <<events, hasMore, offset, shortPage, loadingMore>>
       ELSE /\ events' = events \o NewEvents(resp)
            /\ CheckMore(NewEvents(resp), r.currentOffset)
            /\ shortPage' = (shortPage \/ Len(NewEvents(resp)) < PageLimit)
            /\ loadingMore' = FALSE
            /\ UNCHANGED <<failedFetch, clean>>
    /\ UNCHANGED <<loading, error, timeRange, contentFilter, topicFilter,
                   database, epoch, afterFailure, steady, serverVars, chartVars>>

\* the then / catch of loadMore's axios.get
NextPageSettles(r, resp) ==
    /\ r \in Outstanding /\ r.kind = "next"
    /\ inflight' = Settle(r)
    /\ IF Rejected(resp)
       THEN /\ failedFetch' = TRUE
            /\ clean' = FALSE
            /\ UNCHANGED <<events, hasMore, offset, shortPage>>
       ELSE /\ events' = events \o NewEvents(resp)
            /\ CheckMore(NewEvents(resp), r.currentOffset)
            /\ shortPage' = (shortPage \/ Len(NewEvents(resp)) < PageLimit)
            /\ UNCHANGED <<failedFetch, clean>>
    /\ loadingMore' = FALSE
    /\ UNCHANGED <<loading, error, timeRange, contentFilter, topicFilter,
                   database, epoch, afterFailure, steady, serverVars, chartVars>>

\* App mounted: the state of the useState calls, and the effect's first
\* health check on its way
Init ==
    /\ events = <<>>
    /\ loading = FALSE
    /\ loadingMore = FALSE
    /\ error = ""
    /\ timeRange = "1h"
    /\ contentFilter = <<>>
    /\ topicFilter = <<>>
    /\ database = "clickhouse"
    /\ offset = 0
    /\ hasMore = TRUE
    /\ inflight = SetToBag({Request("health", Filter("1h", <<>>, <<>>, "clickhouse"), 0, 0)})
    /\ epoch = 0
    /\ shortPage = FALSE
    /\ failedFetch = FALSE
    /\ clean = FALSE
    /\ afterFailure = FALSE
    /\ steady = FALSE
    /\ now = StartTime
    /\ table = <<>>
    /\ lastCall = <<>>
    /\ NoCharts

Next ==
    \/ \E v \in TimeRanges : SetTimeRange(v)
    \/ \E v \in Databases : SetDatabase(v)
    \/ \E v \in ContentInputs : SetContentFilter(v)
    \/ \E v \in TopicInputs : SetTopicFilter(v)
    \/ \E r \in Outstanding : HealthOk(r)
    \/ \E r \in Outstanding : HealthFailed(r)
    \/ Refresh
    \/ ContentFilterSubmit
    \/ TopicFilterSubmit
    \/ Scroll
    \/ \E r \in Outstanding : \E resp \in Responses(r) : FirstPageSettles(r, resp)
    \/ \E r \in Outstanding : \E resp \in Responses(r) : NextPageSettles(r, resp)

Spec == Init /\ [][Next]_vars

(***************************************************************************)
(* A browsing session in which no request stays unanswered (SpecLive):     *)
(* every axios.get carries a timeout (30 s for the events, 5 s for the     *)
(* health check), so each outstanding request settles, with the server's   *)
(* response or with the rejection of the timeout.                          *)
(***************************************************************************)
\* the request settles, one way or the other
Settles(r) ==
    \/ HealthOk(r)
    \/ HealthFailed(r)
    \/ \E resp \in Responses(r) : FirstPageSettles(r, resp)
    \/ \E resp \in Responses(r) : NextPageSettles(r, resp)

Kinds == {"health", "first", "next"}

\* the outstanding requests of a kind
OfKind(kind) == {r \in Outstanding : r.kind = kind}

\* a request that stays outstanding settles when its timeout expires at the
\* latest: while requests of a kind are outstanding, one of them settles
Timeouts == \A kind \in Kinds : WF_vars(\E r \in OfKind(kind) : Settles(r))

SpecLive == Spec /\ Timeouts

(***************************************************************************)
(* A browsing session in which an events request may also be answered with *)
(* a status of the 4xx range: the 400 getEvents gives when the query       *)
(* string does not bind, or a 404 without a JSON body.                     *)
(***************************************************************************)
\* c.JSON(http.StatusBadRequest, gin.H{"error": err.Error()})
BadRequest == [status |-> 400, error |-> "invalid query"]

NotFound == [status |-> 404, error |-> ""]

ClientErrors == {BadRequest, NotFound}

NextStatus ==
    \/ Next
    \/ \E r \in Outstanding : \E resp \in ClientErrors : FirstPageSettles(r, resp)
    \/ \E r \in Outstanding : \E resp \in ClientErrors : NextPageSettles(r, resp)

SpecStatus == Init /\ [][NextStatus]_vars

(***************************************************************************)
(* The adapters under load: a store of a few rows, a clock that advances,  *)
(* and GET /api/events called with any query string, one call at a time.   *)
(* lastCall keeps the call being served: the instant it is served at, the  *)
(* statement each adapter builds for it, what each adapter may return for  *)
(* it over the same rows, and what the facade may answer.  Nothing of a    *)
(* call stays on the server once the handler has returned.                 *)
(***************************************************************************)
\* rows a store may hold: two of one timestamp, one that leaves the one-hour
\* window when the clock advances, one just outside it
QueryRows ==
    {Event(StartTime - 10, "tool", <<"t">>, <<"{", "a", ":", "1", "}">>),
     Event(StartTime - 10, "tool", <<"u">>, <<"{", "b", ":", "2", "}">>),
     Event(StartTime - Hour + 1, "tool", <<"t">>, <<"{", "b", ":", "2", "}">>),
     Event(StartTime - Hour - 1, "tool", <<"u">>, <<"{", "a", ":", "1", "}">>)}

RECURSIVE SeqsOf(_, _)
\* the sequences of at most n distinct elements of S
SeqsOf(S, n) ==
    IF n = 0 THEN {<<>>}
    ELSE LET shorter == SeqsOf(S, n - 1)
         IN  shorter \cup {Append(q, x) : q \in {t \in shorter : Len(t) = n - 1},
                                          x \in S}

Tables == {t \in SeqsOf(QueryRows, MaxRows) : \A i, j \in 1..Len(t) : i # j => t[i] # t[j]}

\* the window tokens of the select, a token the switch does not list, and none
Tokens == {"1m", "5m", "20m", "1h", "5h", "1d", "1w", "1mo", "2h"}

QueryStrings ==
    [timeRange : {Absent} \cup {Present(t) : t \in Tokens},
     content   : {Absent, Present(<<"a">>), Present(<<"_">>)},
     topic     : {Absent, Present(<<"t">>)},
     database  : {Absent, Present("postgresql")},
     limit     : {Absent, Present(1), Present(0), Present(-1)},
     offset    : {Absent, Present(1)}]

\* the server's clock advances
Tick ==
    /\ now < StartTime + MaxTicks
    /\ now' = now + 1
    /\ UNCHANGED <<table, lastCall, appVars, historyVars, chartVars>>

\* GET /api/events?req served at the instant now
Query(req) ==
    LET params == WithDefaults(ShouldBindQuery(req))
    IN  /\ lastCall = <<>>
        /\ lastCall' = <<[req         |-> req,
                          clock       |-> now,
                          params      |-> params,
                          adapterCalls |-> AdapterCalls(params),
                          chStatement |-> chStatement(params, now),
                          pgStatement |-> pgStatement(params, now),
                          clickhouse  |-> queryClickHouse(params, now, table),
                          postgresql  |-> queryPostgreSQL(params, now, table),
                          responses   |-> getEvents(req, now, table)]>>
        /\ UNCHANGED <<now, table, appVars, historyVars, chartVars>>

\* the handler returns: the response is written, its locals are gone
Return ==
    /\ lastCall # <<>>
    /\ lastCall' = <<>>
    /\ UNCHANGED <<now, table, appVars, historyVars, chartVars>>

InitQuery ==
    /\ events = <<>>
    /\ loading = FALSE
    /\ loadingMore = FALSE
    /\ error = ""
    /\ timeRange = "1h"
    /\ contentFilter = <<>>
    /\ topicFilter = <<>>
    /\ database = "clickhouse"
    /\ offset = 0
    /\ hasMore = TRUE
    /\ inflight = EmptyBag
    /\ epoch = 0
    /\ shortPage = FALSE
    /\ failedFetch = FALSE
    /\ clean = FALSE
    /\ afterFailure = FALSE
    /\ steady = FALSE
    /\ now = StartTime
    /\ table \in Tables
    /\ lastCall = <<>>
    /\ NoCharts

NextQuery ==
    \/ Tick
    \/ \E req \in QueryStrings : Query(req)
    \/ Return

SpecQuery == InitQuery /\ [][NextQuery]_vars

(***************************************************************************)
(* The Charts view (frontend/vite.config.js, function Charts).             *)
(*                                                                         *)
(* A JavaScript value is a record of its type t and its content v: null    *)
(* and undefined carry nothing, a boolean its truth value, a string its    *)
(* text, an array the sequence of its elements, an object the sequence of  *)
(* its members (key text, value) in insertion order.  A number is counted  *)
(* in tenths, so that 42.5 is 425; "nan" and "inf" are NaN and Infinity.   *)
(* The documents of the model carry at most one fractional digit.          *)
(***************************************************************************)
JNull == [t |-> "null", v |-> <<>>]

JUndefined == [t |-> "undefined", v |-> <<>>]

JNaN == [t |-> "nan", v |-> <<>>]

JInfinity == [t |-> "inf", v |-> <<>>]

JBool(b) == [t |-> "bool", v |-> b]

JNum(tenths) == [t |-> "num", v |-> tenths]

JStr(text) == [t |-> "str", v |-> text]

JArr(items) == [t |-> "arr", v |-> items]

JObj(members) == [t |-> "obj", v |-> members]

Member(key, value) == [k |-> key, v |-> value]

DigitChars == <<"0", "1", "2", "3", "4", "5", "6", "7", "8", "9">>

IsDigit(c) == \E d \in 1..10 : DigitChars[d] = c

DigitValue(c) == (CHOOSE d \in 1..10 : DigitChars[d] = c) - 1

RECURSIVE NatText(_)
\* a natural number in decimal, as `${index}` prints it
NatText(n) ==
    IF n < 10 THEN <<DigitChars[n + 1]>>
    ELSE NatText(n \div 10) \o <<DigitChars[(n % 10) + 1]>>

\* Number.prototype.toString of a finite number counted in tenths
NumText(tenths) ==
    LET text(abs) ==
            NatText(abs \div 10)
                \o (IF abs % 10 = 0 THEN <<>> ELSE <<".", DigitChars[(abs % 10) + 1]>>)
    IN  IF tenths < 0 THEN <<"-">> \o text(-tenths) ELSE text(tenths)

RECURSIVE DigitsEnd(_, _)
\* the index after the run of digits of s that starts at i
DigitsEnd(s, i) == IF i <= Len(s) /\ IsDigit(s[i]) THEN DigitsEnd(s, i + 1) ELSE i

RECURSIVE NatOf(_, _, _)
\* the value of the digits s[i..j-1]
NatOf(s, i, j) == IF i >= j THEN 0 ELSE NatOf(s, i, j - 1) * 10 + DigitValue(s[j - 1])

RECURSIVE SkipBlanks(_, _)
SkipBlanks(s, i) == IF i <= Len(s) /\ s[i] = " " THEN SkipBlanks(s, i + 1) ELSE i

StartsWithAt(s, i, word) ==
    /\ i + Len(word) - 1 <= Len(s)
    /\ SubSeq(s, i, i + Len(word) - 1) = word

\* a decimal literal at s[i]: a sign, digits, a fraction.  JSON (loose =
\* FALSE) wants digits before the fraction, no leading zero and no "+";
\* parseFloat (loose = TRUE) does not.  num is the value in tenths, next
\* the index after the literal; ok is FALSE when no number stands there.
Decimal(s, i, loose) ==
    LET read(neg, d0, d1, hasFrac) ==
            [ok   |-> (d1 > d0 \/ hasFrac) /\ (loose \/ ~(d1 > d0 + 1 /\ s[d0] = "0")),
             num  |-> (IF neg THEN -1 ELSE 1)
                          * (NatOf(s, d0, d1) * 10
                             + (IF hasFrac THEN DigitValue(s[d1 + 1]) ELSE 0)),
             next |-> IF hasFrac THEN DigitsEnd(s, d1 + 1) ELSE d1]
        whole(neg, d0, d1) ==
            read(neg, d0, d1,
                 (d1 > d0 \/ loose) /\ d1 < Len(s) /\ s[d1] = "." /\ IsDigit(s[d1 + 1]))
        from(neg, d0) == whole(neg, d0, DigitsEnd(s, d0))
    IN  from(i <= Len(s) /\ s[i] = "-",
             IF i <= Len(s) /\ (s[i] = "-" \/ (loose /\ s[i] = "+")) THEN i + 1 ELSE i)

\* parseFloat of a string: blanks are skipped, the longest numeric prefix is
\* read and what follows it is ignored; Infinity is a number, no digits NaN
parseFloatText(text) ==
    LET number(d) == IF d.ok THEN JNum(d.num) ELSE JNaN
        at(i) ==
            IF StartsWithAt(text, IF i <= Len(text) /\ text[i] \in {"-", "+"} THEN i + 1 ELSE i,
                            <<"I", "n", "f", "i", "n", "i", "t", "y">>)
            THEN JInfinity
            ELSE number(Decimal(text, i, TRUE))
    IN  at(SkipBlanks(text, 1))

\* parseInt(part, 10): the leading digits of the text, or NaN
parseIntText(text) ==
    LET digits(neg, d0, d1) ==
            IF d1 > d0 THEN JNum((IF neg THEN -1 ELSE 1) * NatOf(text, d0, d1) * 10)
            ELSE JNaN
        from(neg, d0) == digits(neg, d0, DigitsEnd(text, d0))
        at(i) == from(i <= Len(text) /\ text[i] = "-",
                      IF i <= Len(text) /\ text[i] \in {"-", "+"} THEN i + 1 ELSE i)
    IN  at(SkipBlanks(text, 1))

(***************************************************************************)
(* JSON.parse, for the JSON the model's documents are written in: objects, *)
(* arrays, strings without escapes, decimal numbers without exponent,      *)
(* true, false, null, blanks between tokens.                               *)
(***************************************************************************)
Parsed(value, next) == [ok |-> TRUE, value |-> value, next |-> next]

Failed == [ok |-> FALSE, value |-> JUndefined, next |-> 0]

RECURSIVE StringEnd(_, _)
\* the index of the quote that closes a string whose content starts at i,
\* 0 when there is none
StringEnd(s, i) ==
    IF i > Len(s) \/ s[i] = "\\" THEN 0
    ELSE IF s[i] = "\"" THEN i
    ELSE StringEnd(s, i + 1)

\* obj[key] = value of an object under construction: a repeated key keeps
\* its place and takes the later value
SetMember(members, key, value) ==
    IF \E n \in 1..Len(members) : members[n].k = key
    THEN [n \in 1..Len(members) |->
             IF members[n].k = key THEN Member(key, value) ELSE members[n]]
    ELSE Append(members, Member(key, value))

RECURSIVE ParseValue(_, _)
RECURSIVE ParseElements(_, _, _)
RECURSIVE ParseMembers(_, _, _)
\* the value that starts at or after s[i0], and the index after it
ParseValue(s, i0) ==
    LET string(i, e) ==
            IF e = 0 THEN Failed ELSE Parsed(JStr(SubSeq(s, i + 1, e - 1)), e + 1)
        number(d) == IF d.ok THEN Parsed(JNum(d.num), d.next) ELSE Failed
        object(j) ==
            IF j <= Len(s) /\ s[j] = "}" THEN Parsed(JObj(<<>>), j + 1)
            ELSE ParseMembers(s, j, <<>>)
        array(j) ==
            IF j <= Len(s) /\ s[j] = "]" THEN Parsed(JArr(<<>>), j + 1)
            ELSE ParseElements(s, j, <<>>)
        at(i) ==
            IF i > Len(s) THEN Failed
            ELSE IF s[i] = "{" THEN object(SkipBlanks(s, i + 1))
            ELSE IF s[i] = "[" THEN array(SkipBlanks(s, i + 1))
            ELSE IF s[i] = "\"" THEN string(i, StringEnd(s, i + 1))
            ELSE IF s[i] = "-" \/ IsDigit(s[i]) THEN number(Decimal(s, i, FALSE))
            ELSE IF StartsWithAt(s, i, <<"t", "r", "u", "e">>) THEN Parsed(JBool(TRUE), i + 4)
            ELSE IF StartsWithAt(s, i, <<"f", "a", "l", "s", "e">>)
                 THEN Parsed(JBool(FALSE), i + 5)
            ELSE IF StartsWithAt(s, i, <<"n", "u", "l", "l">>) THEN Parsed(JNull, i + 4)
            ELSE Failed
    IN  at(SkipBlanks(s, i0))

\* the elements of an array from s[i] on, items read so far
ParseElements(s, i, items) ==
    LET after(read, j) ==
            IF j > Len(s) THEN Failed
            ELSE IF s[j] = "]" THEN Parsed(JArr(read), j + 1)
            ELSE IF s[j] = "," THEN ParseElements(s, j + 1, read)
            ELSE Failed
        element(r) ==
            IF ~r.ok THEN Failed ELSE after(Append(items, r.value), SkipBlanks(s, r.next))
    IN  element(ParseValue(s, i))

\* the members of an object from s[i] on, members read so far
ParseMembers(s, i, members) ==
    LET after(read, j) ==
            IF j > Len(s) THEN Failed
            ELSE IF s[j] = "}" THEN Parsed(JObj(read), j + 1)
            ELSE IF s[j] = "," THEN ParseMembers(s, j + 1, read)
            ELSE Failed
        member(key, r) ==
            IF ~r.ok THEN Failed
            ELSE after(SetMember(members, key, r.value), SkipBlanks(s, r.next))
        colon(key, c) ==
            IF c > Len(s) \/ s[c] # ":" THEN Failed ELSE member(key, ParseValue(s, c + 1))
        quoted(k, e) ==
            IF e = 0 THEN Failed ELSE colon(SubSeq(s, k + 1, e - 1), SkipBlanks(s, e + 1))
        at(k) == IF k <= Len(s) /\ s[k] = "\"" THEN quoted(k, StringEnd(s, k + 1)) ELSE Failed
    IN  at(SkipBlanks(s, i))

\* JSON.parse(text): the value, or Failed where JSON.parse throws
JSONParse(text) ==
    LET whole(r) == IF r.ok /\ SkipBlanks(text, r.next) > Len(text) THEN r ELSE Failed
    IN  whole(ParseValue(text, 1))

(***************************************************************************)
(* Field discovery: extractNestedFields and extractFields.  A path is a    *)
(* text.                                                                   *)
(***************************************************************************)
\* Number.isFinite / isNaN of a number value
isNaN(value) == value.t = "nan"

isFinite(value) == value.t = "num"

RECURSIVE extractNestedFields(_, _)
\* the paths extractNestedFields(obj, prefix, fieldSet) adds to fieldSet
extractNestedFields(obj, prefix) ==
    LET member(value, fieldPath, parsed) ==
            IF \/ value.t = "num"
               \/ value.t = "str" /\ ~isNaN(parsed) /\ Trim(value.v) # <<>>
            THEN IF value.t = "num" \/ (~isNaN(parsed) /\ isFinite(parsed))
                 THEN {fieldPath} ELSE {}
            ELSE IF value.t \in {"obj", "arr"}
                 THEN extractNestedFields(value, fieldPath)
                 ELSE {}
    IN  IF obj.t \in {"null", "undefined"} THEN {}
        ELSE IF obj.t = "arr"
             THEN UNION {extractNestedFields(
                             obj.v[n], prefix \o <<"[">> \o NatText(n - 1) \o <<"]">>) :
                            n \in 1..Len(obj.v)}
        ELSE IF obj.t = "obj"
             THEN UNION {member(obj.v[n].v,
                                IF prefix # <<>> THEN prefix \o <<".">> \o obj.v[n].k
                                ELSE obj.v[n].k,
                                IF obj.v[n].v.t = "str" THEN parseFloatText(obj.v[n].v.v)
                                ELSE obj.v[n].v) :
                            n \in 1..Len(obj.v)}
        ELSE {}

\* the printable ASCII characters in the order of their UTF-16 code units,
\* from 32 on (the place of the grave accent, 96, is left empty)
Ascii ==
    <<" ", "!", "\"", "#", "$", "%", "&", "'", "(", ")", "*", "+", ",", "-", ".", "/",
      "0", "1", "2", "3", "4", "5", "6", "7", "8", "9", ":", ";", "<", "=", ">", "?",
      "@", "A", "B", "C", "D", "E", "F", "G", "H", "I", "J", "K", "L", "M", "N", "O",
      "P", "Q", "R", "S", "T", "U", "V", "W", "X", "Y", "Z", "[", "\\", "]", "^", "_",
      "", "a", "b", "c", "d", "e", "f", "g", "h", "i", "j", "k", "l", "m", "n", "o",
      "p", "q", "r", "s", "t", "u", "v", "w", "x", "y", "z", "{", "|", "}", "~">>

CodeUnit(c) == 31 + (CHOOSE n \in 1..Len(Ascii) : Ascii[n] = c)

RECURSIVE TextLess(_, _)
\* a < b of two strings: by code units, a proper prefix first
TextLess(a, b) ==
    IF b = <<>> THEN FALSE
    ELSE IF a = <<>> THEN TRUE
    ELSE IF Head(a) # Head(b) THEN CodeUnit(Head(a)) < CodeUnit(Head(b))
    ELSE TextLess(Tail(a), Tail(b))

RECURSIVE SortTexts(_)
\* Array.from(fieldSet).sort() of a set of strings
SortTexts(S) ==
    LET first(least) == <<least>> \o SortTexts(S \ {least})
    IN  IF S = {} THEN <<>>
        ELSE first(CHOOSE a \in S : \A b \in S \ {a} : TextLess(a, b))

RECURSIVE ParsedUntilFailure(_)
\* a reading of the batch that gives up at the first text JSON.parse rejects
ParsedUntilFailure(batch) ==
    LET read(event, r) ==
            IF event.structured # <<>> /\ r.ok
            THEN <<[timestamp |-> event.timestamp, parsed |-> r.value]>>
                     \o ParsedUntilFailure(Tail(batch))
            ELSE <<>>
    IN  IF batch = <<>> THEN <<>>
        ELSE read(Head(batch), JSONParse(Head(batch).structured))

RECURSIVE ParsedOf(_)
\* the documents of a batch that are read: structured non-empty and parsed
\* by JSON.parse without throwing
ParsedOf(batch) ==
    LET read(event, r) ==
            IF event.structured # <<>> /\ r.ok
            THEN <<[timestamp |-> event.timestamp, parsed |-> r.value]>>
            ELSE <<>>
    IN  IF batch = <<>> THEN <<>>
        ELSE read(Head(batch), JSONParse(Head(batch).structured)) \o ParsedOf(Tail(batch))

\* the fields extractFields passes to setAvailableFields
extractFields(batch) ==
    LET fieldSet(docs) ==
            UNION {extractNestedFields(docs[n].parsed, <<>>) : n \in 1..Len(docs)}
    IN  SortTexts(fieldSet(ParsedOf(batch)))

(***************************************************************************)
(* Aggregation: getNestedValue and prepareChartData.                       *)
(***************************************************************************)
RECURSIVE SplitPath(_, _)
\* path.split(/[\.\[\]]/).filter(p => p !== ''), part being the part read
\* so far
SplitPath(path, part) ==
    IF path = <<>> THEN (IF part # <<>> THEN <<part>> ELSE <<>>)
    ELSE IF Head(path) \in {".", "[", "]"}
         THEN (IF part # <<>> THEN <<part>> ELSE <<>>) \o SplitPath(Tail(path), <<>>)
    ELSE SplitPath(Tail(path), Append(part, Head(path)))

\* !value
Falsy(value) ==
    \/ value.t \in {"null", "undefined", "nan"}
    \/ value.t = "num" /\ value.v = 0
    \/ value.t = "str" /\ value.v = <<>>
    \/ value.t = "bool" /\ ~value.v

\* current[part] of an object
Property(object, part) ==
    IF \E n \in 1..Len(object.v) : object.v[n].k = part
    THEN object.v[CHOOSE n \in 1..Len(object.v) : object.v[n].k = part].v
    ELSE JUndefined

RECURSIVE Walk(_, _)
\* the loop of getNestedValue over the parts left
Walk(current, parts) ==
    LET element(index) ==
            IF isNaN(index) THEN JUndefined
            ELSE IF index.v \div 10 + 1 \in 1..Len(current.v)
                 THEN Walk(current.v[index.v \div 10 + 1], Tail(parts))
                 ELSE Walk(JUndefined, Tail(parts))
    IN  IF parts = <<>> THEN current
        ELSE IF current.t \in {"null", "undefined"} THEN JUndefined
        ELSE IF current.t = "arr" THEN element(parseIntText(Head(parts)))
        ELSE IF current.t = "obj" THEN Walk(Property(current, Head(parts)), Tail(parts))
        ELSE JUndefined

getNestedValue(obj, path) ==
    IF Falsy(obj) \/ path = <<>> THEN JUndefined ELSE Walk(obj, SplitPath(path, <<>>))

RECURSIVE JoinTexts(_)
JoinTexts(texts) ==
    IF texts = <<>> THEN <<>>
    ELSE IF Len(texts) = 1 THEN texts[1]
    ELSE texts[1] \o <<",">> \o JoinTexts(Tail(texts))

RECURSIVE JsString(_)
\* String(value)
JsString(value) ==
    CASE value.t = "str"  -> value.v
      [] value.t = "num"  -> NumText(value.v)
      [] value.t = "bool" -> IF value.v THEN <<"t", "r", "u", "e">>
                             ELSE <<"f", "a", "l", "s", "e">>
      [] value.t = "arr"  ->
             JoinTexts([n \in 1..Len(value.v) |->
                           IF value.v[n].t \in {"null", "undefined"} THEN <<>>
                           ELSE JsString(value.v[n])])
      [] value.t = "obj"  -> <<"[", "o", "b", "j", "e", "c", "t", " ",
                               "O", "b", "j", "e", "c", "t", "]">>
      [] value.t = "nan"  -> <<"N", "a", "N">>
      [] value.t = "inf"  -> <<"I", "n", "f", "i", "n", "i", "t", "y">>
      [] value.t = "null" -> <<"n", "u", "l", "l">>
      [] OTHER            -> <<"u", "n", "d", "e", "f", "i", "n", "e", "d">>

\* a + b of two values that are numbers or strings
JsAdd(a, b) ==
    IF a.t = "num" /\ b.t = "num" THEN JNum(a.v + b.v)
    ELSE JStr(JsString(a) \o JsString(b))

\* two digits
TwoDigits(n) == <<DigitChars[(n \div 10) + 1], DigitChars[(n % 10) + 1]>>

\* toLocaleTimeString('en-US', {hour: '2-digit', minute: '2-digit', second:
\* '2-digit'}) of the instant ms in a time zone tz seconds east of UTC: the
\* twelve-hour clock of the locale, with its day period
toLocaleTimeString(ms, tz) ==
    LET text(local, hour24) ==
            TwoDigits(IF hour24 % 12 = 0 THEN 12 ELSE hour24 % 12) \o <<":">>
                \o TwoDigits((local \div 60) % 60) \o <<":">> \o TwoDigits(local % 60)
                \o <<" ">> \o (IF hour24 < 12 THEN <<"A", "M">> ELSE <<"P", "M">>)
        clock(local) == text(local, local \div 3600)
    IN  clock(((ms \div 1000) + tz) % 86400)

TimestampKey == <<"t", "i", "m", "e", "s", "t", "a", "m", "p">>

TimeKey == <<"t", "i", "m", "e">>

\* object[key] = value
SetKey(object, key, value) ==
    [k \in DOMAIN object \cup {key} |-> IF k = key THEN value ELSE object[k]]

\* object[key]
GetKey(object, key) == IF key \in DOMAIN object THEN object[key] ELSE JUndefined

RECURSIVE ReadFields(_, _, _)
\* selectedFields.forEach of lines 226-235 over the fields left
ReadFields(dataPoint, parsed, fields) ==
    LET store(value, numValue) ==
            IF value.t \notin {"undefined", "null"} /\ ~isNaN(numValue) /\ isFinite(numValue)
            THEN SetKey(dataPoint, Head(fields), numValue)
            ELSE dataPoint
        read(value) ==
            store(value, IF value.t = "num" THEN value ELSE parseFloatText(JsString(value)))
    IN  IF fields = <<>> THEN dataPoint
        ELSE ReadFields(read(getNestedValue(parsed, Head(fields))), parsed, Tail(fields))

RECURSIVE AddFields(_, _, _)
\* selectedFields.forEach of lines 240-244 over the fields left
AddFields(existing, dataPoint, fields) ==
    LET add(sofar, value) ==
            IF value.t # "undefined"
            THEN SetKey(existing, Head(fields),
                        JsAdd(IF Falsy(sofar) THEN JNum(0) ELSE sofar, value))
            ELSE existing
    IN  IF fields = <<>> THEN existing
        ELSE AddFields(add(GetKey(existing, Head(fields)), GetKey(dataPoint, Head(fields))),
                       dataPoint, Tail(fields))

RECURSIVE Grouped(_, _, _, _)
\* events.forEach of prepareChartData: dataMap, a Map in insertion order,
\* is a sequence of entries (key, value)
Grouped(dataMap, docs, fields, tz) ==
    LET put(timestamp, dataPoint) ==
            IF \E n \in 1..Len(dataMap) : dataMap[n].key = timestamp
            THEN [n \in 1..Len(dataMap) |->
                     IF dataMap[n].key = timestamp
                     THEN [key |-> timestamp,
                           value |-> AddFields(dataMap[n].value, dataPoint, fields)]
                     ELSE dataMap[n]]
            ELSE Append(dataMap, [key |-> timestamp, value |-> dataPoint])
        point(timestamp, time) ==
            put(timestamp,
                ReadFields((TimestampKey :> timestamp) @@ (TimeKey :> JStr(time)),
                           Head(docs).parsed, fields))
    IN  IF docs = <<>> THEN dataMap
        ELSE Grouped(point(JNum(Head(docs).timestamp * 10),
                           toLocaleTimeString(Head(docs).timestamp, tz)),
                     Tail(docs), fields, tz)

RECURSIVE SortByTimestamp(_)
\* .sort((a, b) => a.timestamp - b.timestamp): stable
SortByTimestamp(items) ==
    LET insert(sorted, item, before) ==
            SubSeq(sorted, 1, before) \o <<item>> \o SubSeq(sorted, before + 1, Len(sorted))
        place(sorted, item) ==
            insert(sorted, item,
                   Cardinality({n \in 1..Len(sorted) :
                                   sorted[n][TimestampKey].v <= item[TimestampKey].v}))
    IN  IF items = <<>> THEN <<>>
        ELSE place(SortByTimestamp(SubSeq(items, 1, Len(items) - 1)), items[Len(items)])

\* const { timestamp, ...rest } = item
Rest(item) == [k \in DOMAIN item \ {TimestampKey} |-> item[k]]

\* an aggregation that emits only the points that hold a field value
prepareChartDataDropsEmpty(batch, fields, tz) ==
    LET emitted(sorted) ==
            SelectSeq([n \in 1..Len(sorted) |-> Rest(sorted[n])],
                      LAMBDA point : DOMAIN point # {TimeKey})
        values(dataMap) == [n \in 1..Len(dataMap) |-> dataMap[n].value]
    IN  emitted(SortByTimestamp(values(Grouped(<<>>, ParsedOf(batch), fields, tz))))

\* the array prepareChartData passes to setChartData
prepareChartData(batch, fields, tz) ==
    LET emitted(sorted) == [n \in 1..Len(sorted) |-> Rest(sorted[n])]
        values(dataMap) == [n \in 1..Len(dataMap) |-> dataMap[n].value]
    IN  emitted(SortByTimestamp(values(Grouped(<<>>, ParsedOf(batch), fields, tz))))

(***************************************************************************)
(* The Charts view as a state machine (SpecCharts): the rows the server    *)
(* will answer with and the browser's time zone are fixed when the view    *)
(* mounts; the user types a topic, fetches, and toggles fields.  Every     *)
(* action runs the effects that follow its render.                         *)
(***************************************************************************)
ChartEvent(ms, text) == [timestamp |-> ms, structured |-> text]

\* the instants of the rows, in milliseconds
Stamps == {1000, 2000}

\* structured texts: a numeric string, a word and a number inside an
\* array; a string with a numeric prefix; a text that is not JSON; a number
\* under a key named like the bucket's own timestamp
DocTexts ==
    {<<"{", "\"", "x", "\"", ":", "\"", "4", "2", ".", "5", "\"", ",",
       "\"", "s", "\"", ":", "\"", "h", "e", "l", "l", "o", "\"", ",",
       "\"", "a", "\"", ":", "[", "1", "]", "}">>,
     <<"{", "\"", "x", "\"", ":", "\"", "1", "2", "a", "b", "c", "\"", "}">>,
     <<"{", "x", ":", "3", "}">>,
     <<"{", "\"", "t", "i", "m", "e", "s", "t", "a", "m", "p", "\"", ":", "7", "}">>}

ChartEvents == {ChartEvent(ms, text) : ms \in Stamps, text \in DocTexts}

\* the scenario of three rows: a = 1 and a = 2 at 1000, a = 5 at 2000
ScenarioBatch ==
    <<ChartEvent(1000, <<"{", "\"", "a", "\"", ":", "1", "}">>),
      ChartEvent(1000, <<"{", "\"", "a", "\"", ":", "2", "}">>),
      ChartEvent(2000, <<"{", "\"", "a", "\"", ":", "5", "}">>)>>

Batches == SeqsOf(ChartEvents, MaxBatch) \cup {ScenarioBatch}

\* seconds east of UTC of the browser's time zone
Zones == {0, -18000}

ChartTopics == {<<>>, <<"t">>}

\* useEffect of lines 141-145, after a render with these events and fields
AutoSelect(batch, selected, available) ==
    IF batch # <<>> /\ selected = <<>> /\ available # <<>>
    THEN <<available[1]>> ELSE selected

\* useEffect of lines 200-206, after a render with these events and fields
ChartDataEffect(batch, selected) ==
    IF batch # <<>> /\ selected # <<>>
    THEN prepareChartData(batch, selected, zone) ELSE <<>>

\* the topic input: setTopicFilter(e.target.value)
SetChartTopic(v) ==
    /\ v # chartTopic
    /\ chartTopic' = v
    /\ UNCHANGED <<chartStore, zone, chartLoading, chartError, chartEvents,
                   availableFields, selectedFields, chartData, chartPending,
                   appVars, historyVars, serverVars>>

\* a fetchEvents that tests the topic as typed, blanks included
ChartsFetchUntrimmed ==
    /\ chartPending = <<>>
    /\ IF chartTopic = <<>>
       THEN /\ chartError' = "Please enter a topic filter"
            /\ UNCHANGED <<chartLoading, chartPending>>
       ELSE /\ chartLoading' = TRUE
            /\ chartError' = ""
            /\ chartPending' = <<[selectedFields |-> selectedFields]>>
    /\ UNCHANGED <<chartStore, zone, chartTopic, chartEvents, availableFields,
                   selectedFields, chartData, appVars, historyVars, serverVars>>

\* Load Data, or Enter in the topic input: fetchEvents up to its await; the
\* closure of the render holds selectedFields
ChartsFetch ==
    /\ chartPending = <<>>
    /\ IF Trim(chartTopic) = <<>>
       THEN /\ chartError' = "Please enter a topic filter"
            /\ UNCHANGED <<chartLoading, chartPending>>
       ELSE /\ chartLoading' = TRUE
            /\ chartError' = ""
            /\ chartPending' = <<[selectedFields |-> selectedFields]>>
    /\ UNCHANGED <<chartStore, zone, chartTopic, chartEvents, availableFields,
                   selectedFields, chartData, appVars, historyVars, serverVars>>

\* a render with these events and these selected fields, and its effects
Rendered(batch, selected) ==
    /\ selectedFields' = selected
    /\ chartData' = ChartDataEffect(batch, selected)

\* a settling that adds the fields of the batch to those already listed
ChartsFetchSettlesAccumulates ==
    LET loaded(fetchedEvents, fields) ==
            /\ chartEvents' = fetchedEvents
            /\ availableFields' = fields
            /\ Rendered(fetchedEvents,
                        AutoSelect(fetchedEvents,
                                   IF fields # <<>> /\ chartPending[1].selectedFields = <<>>
                                   THEN <<fields[1]>> ELSE selectedFields,
                                   fields))
    IN  /\ chartPending # <<>>
        /\ loaded(chartStore,
                  SortTexts({availableFields[n] : n \in 1..Len(availableFields)}
                                \cup {extractFields(chartStore)[n] :
                                         n \in 1..Len(extractFields(chartStore))}))
        /\ chartLoading' = FALSE
        /\ chartPending' = <<>>
        /\ UNCHANGED <<chartStore, zone, chartTopic, chartError, appVars, historyVars,
                       serverVars>>

\* fetchEvents after its await, the server has answered: setEvents,
\* extractFields (which selects the first field when the closure holds no
\* selection), setLoading(false)
ChartsFetchSettles ==
    LET loaded(fetchedEvents, fields) ==
            /\ chartEvents' = fetchedEvents
            /\ availableFields' = fields
            /\ Rendered(fetchedEvents,
                        AutoSelect(fetchedEvents,
                                   IF fields # <<>> /\ chartPending[1].selectedFields = <<>>
                                   THEN <<fields[1]>> ELSE selectedFields,
                                   fields))
    IN  /\ chartPending # <<>>
        /\ loaded(chartStore, extractFields(chartStore))
        /\ chartLoading' = FALSE
        /\ chartPending' = <<>>
        /\ UNCHANGED <<chartStore, zone, chartTopic, chartError, appVars, historyVars,
                       serverVars>>

\* a failure that leaves the series of the batch it discards
ChartsFetchFailsKeepsSeries ==
    /\ chartPending # <<>>
    /\ chartError' = "Network Error"
    /\ chartEvents' = <<>>
    /\ chartLoading' = FALSE
    /\ chartPending' = <<>>
    /\ UNCHANGED <<chartStore, zone, chartTopic, availableFields, selectedFields,
                   chartData, appVars, historyVars, serverVars>>

\* fetchEvents after its await, axios.get rejected: setError, setEvents([])
ChartsFetchFails ==
    /\ chartPending # <<>>
    /\ chartError' = "Network Error"
    /\ chartEvents' = <<>>
    /\ Rendered(<<>>, selectedFields)
    /\ chartLoading' = FALSE
    /\ chartPending' = <<>>
    /\ UNCHANGED <<chartStore, zone, chartTopic, availableFields, appVars,
                   historyVars, serverVars>>

\* a checkbox of the field list: handleFieldToggle(field)
ToggleField(field) ==
    LET toggled(selected) ==
            Rendered(chartEvents, AutoSelect(chartEvents, selected, availableFields))
    IN  /\ \E n \in 1..Len(availableFields) : availableFields[n] = field
        /\ toggled(IF \E n \in 1..Len(selectedFields) : selectedFields[n] = field
                   THEN SelectSeq(selectedFields, LAMBDA f : f # field)
                   ELSE Append(selectedFields, field))
        /\ UNCHANGED <<chartStore, zone, chartTopic, chartLoading, chartError,
                       chartEvents, availableFields, chartPending, appVars,
                       historyVars, serverVars>>

InitCharts ==
    /\ events = <<>>
    /\ loading = FALSE
    /\ loadingMore = FALSE
    /\ error = ""
    /\ timeRange = "1h"
    /\ contentFilter = <<>>
    /\ topicFilter = <<>>
    /\ database = "clickhouse"
    /\ offset = 0
    /\ hasMore = TRUE
    /\ inflight = EmptyBag
    /\ epoch = 0
    /\ shortPage = FALSE
    /\ failedFetch = FALSE
    /\ clean = FALSE
    /\ afterFailure = FALSE
    /\ steady = FALSE
    /\ now = StartTime
    /\ table = <<>>
    /\ lastCall = <<>>
    /\ chartStore \in Batches
    /\ zone \in Zones
    /\ chartTopic = <<>>
    /\ chartLoading = FALSE
    /\ chartError = ""
    /\ chartEvents = <<>>
    /\ availableFields = <<>>
    /\ selectedFields = <<>>
    /\ chartData = <<>>
    /\ chartPending = <<>>

NextCharts ==
    \/ \E v \in ChartTopics : SetChartTopic(v)
    \/ ChartsFetch
    \/ ChartsFetchSettles
    \/ ChartsFetchFails
    \/ \E n \in 1..Len(availableFields) : ToggleField(availableFields[n])

SpecCharts == InitCharts /\ [][NextCharts]_vars

(***************************************************************************)
(* The Charts view over documents that store different kinds of value      *)
(* under one key (SpecPaths): a fetch returns two rows of different        *)
(* instants, so a path discovered in one document is resolved in the       *)
(* other.                                                                  *)
(***************************************************************************)
\* structured texts: under k an object with the key 1x, an array of two
\* numbers, null, a number, an array of one object
PathDocs ==
    <<<<"{", "\"", "k", "\"", ":", "{", "\"", "1", "x", "\"", ":", "5",
       "}", "}">>,
     <<"{", "\"", "k", "\"", ":", "[", "7", ",", "8", "]", "}">>,
     <<"{", "\"", "k", "\"", ":", "n", "u", "l", "l", "}">>,
     <<"{", "\"", "k", "\"", ":", "3", "}">>,
     <<"{", "\"", "k", "\"", ":", "[", "{", "\"", "v", "\"", ":", "2",
       "}", "]", "}">>>>

PathDocTexts == {PathDocs[n] : n \in 1..Len(PathDocs)}

PathBatches ==
    {<<ChartEvent(1000, first), ChartEvent(2000, second)>> :
        first \in PathDocTexts, second \in PathDocTexts}

InitPaths ==
    /\ events = <<>>
    /\ loading = FALSE
    /\ loadingMore = FALSE
    /\ error = ""
    /\ timeRange = "1h"
    /\ contentFilter = <<>>
    /\ topicFilter = <<>>
    /\ database = "clickhouse"
    /\ offset = 0
    /\ hasMore = TRUE
    /\ inflight = EmptyBag
    /\ epoch = 0
    /\ shortPage = FALSE
    /\ failedFetch = FALSE
    /\ clean = FALSE
    /\ afterFailure = FALSE
    /\ steady = FALSE
    /\ now = StartTime
    /\ table = <<>>
    /\ lastCall = <<>>
    /\ chartStore \in PathBatches
    /\ zone \in Zones
    /\ chartTopic = <<>>
    /\ chartLoading = FALSE
    /\ chartError = ""
    /\ chartEvents = <<>>
    /\ availableFields = <<>>
    /\ selectedFields = <<>>
    /\ chartData = <<>>
    /\ chartPending = <<>>

SpecPaths == InitPaths /\ [][NextCharts]_vars

(***************************************************************************)
(* The Charts view over documents whose keys are empty or hold the         *)
(* characters a path is split at, and over a document that is an array.    *)
(***************************************************************************)
\* structured texts: {"":1}, {"a.b":1}, {"k[0]":4}, {"a]":6}, [{"v":2}],
\* {"a":{"b":2}}
KeyDocs ==
    <<<<"{", "\"", "\"", ":", "1", "}">>,
      <<"{", "\"", "a", ".", "b", "\"", ":", "1", "}">>,
      <<"{", "\"", "k", "[", "0", "]", "\"", ":", "4", "}">>,
      <<"{", "\"", "a", "]", "\"", ":", "6", "}">>,
      <<"[", "{", "\"", "v", "\"", ":", "2", "}", "]">>,
      <<"{", "\"", "a", "\"", ":", "{", "\"", "b", "\"", ":", "2", "}", "}">>>>

KeyBatches == {<<ChartEvent(1000, KeyDocs[n])>> : n \in 1..Len(KeyDocs)}

InitKeys ==
    /\ events = <<>>
    /\ loading = FALSE
    /\ loadingMore = FALSE
    /\ error = ""
    /\ timeRange = "1h"
    /\ contentFilter = <<>>
    /\ topicFilter = <<>>
    /\ database = "clickhouse"
    /\ offset = 0
    /\ hasMore = TRUE
    /\ inflight = EmptyBag
    /\ epoch = 0
    /\ shortPage = FALSE
    /\ failedFetch = FALSE
    /\ clean = FALSE
    /\ afterFailure = FALSE
    /\ steady = FALSE
    /\ now = StartTime
    /\ table = <<>>
    /\ lastCall = <<>>
    /\ chartStore \in KeyBatches
    /\ zone = 0
    /\ chartTopic = <<>>
    /\ chartLoading = FALSE
    /\ chartError = ""
    /\ chartEvents = <<>>
    /\ availableFields = <<>>
    /\ selectedFields = <<>>
    /\ chartData = <<>>
    /\ chartPending = <<>>

SpecKeys == InitKeys /\ [][NextCharts]_vars

(***************************************************************************)
(* The Charts view over a store that changes between fetches               *)
(* (SpecRefetch): rows are written and expire at the server while the view *)
(* is open, so a later fetch returns another batch.                        *)
(***************************************************************************)
\* the batches the store passes through: by the positions of their two
\* documents in the order object, array, null, number, array of an object
RefetchBatches ==
    {batch \in PathBatches :
        \E pair \in {<<1, 4>>, <<4, 4>>, <<5, 3>>, <<3, 2>>} :
            /\ batch[1].structured = PathDocs[pair[1]]
            /\ batch[2].structured = PathDocs[pair[2]]}

\* the rows a fetch would return change at the server
StoreChanges ==
    /\ chartStore' \in RefetchBatches \ {chartStore}
    /\ UNCHANGED <<zone, chartTopic, chartLoading, chartError, chartEvents,
                   availableFields, selectedFields, chartData, chartPending,
                   appVars, historyVars, serverVars>>

InitRefetch ==
    /\ InitPaths
    /\ chartStore \in RefetchBatches
    /\ zone = 0

NextRefetch ==
    \/ NextCharts
    \/ StoreChanges

SpecRefetch == InitRefetch /\ [][NextRefetch]_vars

(***************************************************************************)
(* The Charts view of a user who may also type a topic of blanks only.     *)
(***************************************************************************)
BlankTopic == <<" ">>

NextBlank ==
    \/ NextCharts
    \/ SetChartTopic(BlankTopic)

SpecBlank == InitRefetch /\ [][NextBlank]_vars

(***************************************************************************)
(* Properties of a browsing session (Spec).                                *)
(***************************************************************************)
\* a step that sends a next-page request (loadMore's axios.get)
SendsNextPage ==
    \E r \in BagToSet(inflight') :
        r.kind = "next" /\ CopiesIn(r, inflight') > CopiesIn(r, inflight)

\* C1: when an events fetch that was issued in an earlier filter epoch
\* resolves, its events are discarded: the buffer is left as it was.
C1_StaleResponseDiscarded ==
    [][\A r \in EventFetches :
          (r.ep # epoch /\ inflight' = Settle(r) /\ epoch' = epoch) => events' = events]_vars

\* C2: at most one events fetch issued in the current filter epoch is
\* outstanding in any reachable state.
C2_AtMostOneFetchInFlight ==
    \A r, q \in EventFetches :
        (r.ep = epoch /\ q.ep = epoch) => (r = q /\ CopiesIn(r, inflight) = 1)

\* the window durations of the specification, in seconds
ClaimedDuration(token) ==
    CASE token = "1m"  -> 60
      [] token = "5m"  -> 300
      [] token = "20m" -> 1200
      [] token = "1h"  -> 3600
      [] token = "5h"  -> 18000
      [] token = "1d"  -> 86400
      [] token = "1w"  -> 604800
      [] token = "1mo" -> 2592000
      [] OTHER         -> 3600

\* sub occurs in text
Contains(text, sub) ==
    \E i \in 1..(Len(text) - Len(sub) + 1) : SubSeq(text, i, i + Len(sub) - 1) = sub

\* the row matches the filter: inside the window, containing the content,
\* of the topic
MatchesFilter(row, f) ==
    /\ row.timestamp >= StartTime - ClaimedDuration(f.timeRange)
    /\ Trim(f.contentFilter) # <<>> => Contains(row.structured, Trim(f.contentFilter))
    /\ Trim(f.topicFilter) # <<>> => row.topic = Trim(f.topicFilter)

MatchingCount(f) == Cardinality({i \in DOMAIN SeedTable : MatchesFilter(SeedTable[i], f)})

\* C3: with an unchanged filter and no failed fetch, once loadMore has
\* reached Exhausted (hasMore = false) the buffer holds exactly as many
\* events as the store has matching the filter.
C3_ExhaustedBufferIsComplete ==
    (clean /\ ~hasMore /\ EventFetches = {}) => Len(events) = MatchingCount(CurrentFilter)

\* C4: once a page shorter than the limit has resolved, no proximity trigger
\* starts another fetch until the filter changes.
C4_ShortPageExhausts ==
    [][(shortPage /\ epoch' = epoch) => ~SendsNextPage]_vars

\* C5: a failed page fetch leaves the events accumulated before it in the
\* buffer, and after it no proximity trigger starts another fetch until the
\* filter changes.
C5_FailureKeepsBufferAndStops ==
    [][/\ (~failedFetch /\ failedFetch') => events' = events
       /\ (failedFetch /\ epoch' = epoch) => ~SendsNextPage]_vars

\* C6 as stated: once the first page of the current filter resolves, the
\* buffer equals exactly that page and the next-page offset equals that
\* page's length.
C6_OffsetIsPageLength ==
    [][\A r \in Outstanding : \A resp \in Responses(r) :
          (r.ep = epoch /\ ~Rejected(resp) /\ FirstPageSettles(r, resp)) =>
              /\ events' = NewEvents(resp)
              /\ offset' = Len(NewEvents(resp))]_vars

\* C6, amended: the first-page fetch of the current filter is sent for
\* offset 0; once it resolves, the buffer equals exactly that page; a page of
\* limit events sets the next-page offset to its length and leaves more to
\* fetch; a shorter page ends the pagination and leaves the offset as it was.
C6_FirstPageOfNewFilter ==
    [][\A r \in Outstanding : \A resp \in Responses(r) :
          (r.ep = epoch /\ ~Rejected(resp) /\ FirstPageSettles(r, resp)) =>
              /\ r.currentOffset = 0
              /\ r.f = CurrentFilter
              /\ events' = NewEvents(resp)
              /\ Len(NewEvents(resp)) <= PageLimit
              /\ Len(NewEvents(resp)) = PageLimit =>
                     (hasMore' /\ offset' = Len(NewEvents(resp)))
              /\ Len(NewEvents(resp)) < PageLimit => (~hasMore' /\ offset' = offset)]_vars

\* C6 happens: after a filter change, the first page of the new filter has
\* resolved short of the limit, alone and without failure
C6_ShortFirstPageOfNewFilter ==
    /\ epoch > 0 /\ clean /\ shortPage /\ ~loading
    /\ events # <<>> /\ Len(events) < PageLimit
    /\ offset = 0 /\ ~hasMore

(***************************************************************************)
(* Properties of the adapters (SpecQuery).                                 *)
(***************************************************************************)
\* the results an adapter may return without error
Returned(outcomes) == {o.events : o \in {x \in outcomes : x.err = ""}}

\* C7: for the same query at the same instant over the same rows, the two
\* adapters return the same sequence of events, row for row.
C7_AdaptersAgree ==
    lastCall # <<>> =>
        \A a \in Returned(lastCall[1].clickhouse) :
            \A b \in Returned(lastCall[1].postgresql) : a = b

\* C8: when the request carries a non-empty topic, every event GET
\* /api/events returns has that topic.
C8_TopicFilterApplied ==
    (lastCall # <<>> /\ lastCall[1].req.topic # Absent /\ lastCall[1].req.topic[1] # <<>>) =>
        \A resp \in lastCall[1].responses :
            resp.status = 200 =>
                \A i \in 1..Len(resp.events) : resp.events[i].topic = lastCall[1].req.topic[1]

\* C9: for a query with window token "1h", no event either adapter returns
\* is older than one hour at the instant of the call, whatever the clock was
\* at earlier calls.
C9_OneHourWindow ==
    (lastCall # <<>> /\ lastCall[1].params.TimeRange = "1h") =>
        \A page \in Returned(lastCall[1].clickhouse) \cup Returned(lastCall[1].postgresql) :
            \A i \in 1..Len(page) :
                page[i].timestamp >= lastCall[1].clock - ClaimedDuration("1h")

\* C9 happens: a "1h" query served after the clock has advanced returns
\* events and leaves out a row that was inside the window when the clock
\* started
C9_WindowMovedWithClock ==
    /\ lastCall # <<>>
    /\ lastCall[1].params.TimeRange = "1h"
    /\ lastCall[1].clock > StartTime
    /\ \E i \in 1..Len(table) :
          /\ table[i].timestamp >= StartTime - ClaimedDuration("1h")
          /\ table[i].timestamp < lastCall[1].clock - ClaimedDuration("1h")
    /\ \E page \in Returned(lastCall[1].clickhouse) : page # <<>>
    /\ \E page \in Returned(lastCall[1].postgresql) : page # <<>>

\* C10: each adapter bounds the window of a non-empty token by the instant
\* of the call minus the token's duration (1, 5, 20 minutes; 1, 5 hours; 1,
\* 7, 30 days), and by one hour for any other token.
C10_WindowDurations ==
    (lastCall # <<>> /\ lastCall[1].params.TimeRange # "") =>
        /\ lastCall[1].chStatement.args[1] =
               lastCall[1].clock - ClaimedDuration(lastCall[1].params.TimeRange)
        /\ lastCall[1].pgStatement.args[1] =
               lastCall[1].clock - ClaimedDuration(lastCall[1].params.TimeRange)

\* C10 happens: a query with a token the switch does not list is bounded by
\* one hour in both adapters
C10_UnknownTokenFallsBack ==
    /\ lastCall # <<>>
    /\ lastCall[1].req.timeRange = Present("2h")
    /\ lastCall[1].chStatement.args[1] = lastCall[1].clock - 3600
    /\ lastCall[1].pgStatement.args[1] = lastCall[1].clock - 3600

\* the events of the facade's successful answers
Answered(responses) == {resp.events : resp \in {x \in responses : x.status = 200}}

\* C11: before the adapter is called, a limit that is absent or <= 0 is
\* replaced by 100, an absent store by clickhouse, and an absent offset is 0;
\* the statement of the adapter called carries a LIMIT > 0.
C11_FacadeDefaults ==
    lastCall # <<>> =>
        LET req == lastCall[1].req
        IN  \A resp \in lastCall[1].responses :
                resp.status = 200 =>
                    /\ resp.params.Limit > 0
                    /\ (req.limit = Absent \/ req.limit[1] <= 0) => resp.params.Limit = 100
                    /\ (req.limit # Absent /\ req.limit[1] > 0) =>
                           resp.params.Limit = req.limit[1]
                    /\ req.database = Absent =>
                           /\ resp.params.Database = "clickhouse"
                           /\ Answered(lastCall[1].responses) = Returned(lastCall[1].clickhouse)
                    /\ req.database # Absent => resp.params.Database = req.database[1]
                    /\ req.offset = Absent => resp.params.Offset = 0
                    /\ ValueOf(lastCall[1].chStatement, " LIMIT ") = resp.params.Limit
                    /\ ValueOf(lastCall[1].pgStatement, " LIMIT ") = resp.params.Limit
                    /\ Len(resp.events) <= resp.params.Limit

\* C11 happens: a request with limit=0 and neither store nor offset is
\* answered by the columnar adapter with limit 100, every row of a store of
\* more than one row included
C11_ZeroLimitDefaulted ==
    /\ lastCall # <<>>
    /\ lastCall[1].req.limit = Present(0)
    /\ lastCall[1].req.database = Absent
    /\ lastCall[1].req.offset = Absent
    /\ lastCall[1].req.timeRange = Absent
    /\ lastCall[1].req.content = Absent
    /\ Len(table) > 1
    /\ \E resp \in lastCall[1].responses :
          /\ resp.status = 200
          /\ resp.params.Limit = 100 /\ resp.params.Database = "clickhouse"
          /\ resp.params.Offset = 0
          /\ Len(resp.events) = Len(table)

\* what the adapter the facade selected may return
Selected(call) ==
    IF call.params.Database = "clickhouse" THEN call.clickhouse ELSE call.postgresql

\* C12: when the selected adapter reports an error (query execution, row
\* scan, end of iteration) the facade answers with an error message and a
\* non-2xx status and no events; events are answered only as the adapter
\* returned them without error; the facade calls the adapter once.
C12_ErrorNormalized ==
    lastCall # <<>> =>
        /\ \A o \in Selected(lastCall[1]) :
              o.err # "" =>
                  \E resp \in lastCall[1].responses :
                      /\ resp.status \notin 200..299
                      /\ DOMAIN resp = {"status", "error"}
                      /\ resp.error = o.err
        /\ \A resp \in lastCall[1].responses :
              /\ resp.status \notin 200..299 => DOMAIN resp = {"status", "error"}
              /\ "events" \in DOMAIN resp =>
                     \E o \in Selected(lastCall[1]) : o.err = "" /\ o.events = resp.events
        /\ Len(lastCall[1].adapterCalls) = 1

\* C12 happens: the selected adapter fails in each of the three ways, at the
\* end of the iteration with a row already read of the two the statement
\* selects, and the facade answers 500
C12_FailedAfterRowsRead ==
    /\ lastCall # <<>>
    /\ \E o \in Selected(lastCall[1]) : o.err = "query failed"
    /\ \E o \in Selected(lastCall[1]) : o.err = "scan failed"
    /\ \E o \in Selected(lastCall[1]) :
          /\ o.err = "rows error" /\ Len(o.events) = 1
          /\ \E full \in Selected(lastCall[1]) : full.err = "" /\ Len(full.events) = 2
    /\ \E resp \in lastCall[1].responses : resp.status = 500 /\ resp.error = "rows error"

\* the statement orders once, after its predicates and before LIMIT / OFFSET
OrdersOnce(stmt) ==
    LET at == {k \in 1..Len(stmt.text) : stmt.text[k].sql = " ORDER BY timestamp DESC"}
    IN  /\ Cardinality(at) = 1
        /\ \A k \in 1..Len(stmt.text) : \A o \in at :
              /\ stmt.text[k].sql \in {" AND timestamp >= ", " AND structured LIKE ",
                                       " AND structured::text LIKE "} => k < o
              /\ stmt.text[k].sql \in {" LIMIT ", " OFFSET "} => k > o
        /\ \A k, j \in 1..Len(stmt.text) :
              (stmt.text[k].sql = " LIMIT " /\ stmt.text[j].sql = " OFFSET ") => k < j

NonIncreasing(page) ==
    \A i \in 1..(Len(page) - 1) : page[i].timestamp >= page[i + 1].timestamp

\* the slices [off, off + lim) of the rows the statement selects, in every
\* arrangement of them that is non-increasing in timestamp
Slices(stmt, rows, lim, off) ==
    LET matching == SelectSeq(rows, LAMBDA row : Satisfies(Predicates(stmt), row))
        selected == [i \in 1..Len(matching) |-> Project(stmt, matching[i])]
        last(o) == IF off + lim < Len(o) THEN off + lim ELSE Len(o)
    IN  {SubSeq(o, off + 1, last(o)) : o \in {x \in PermsOf(selected) : NonIncreasing(x)}}

\* C13: each adapter's statement holds ORDER BY timestamp DESC once, after
\* the predicates and before LIMIT / OFFSET; every page returned is the slice
\* [offset, offset + limit) of the matching events in non-increasing
\* timestamp order and has at most limit events.
C13_OrderedPage ==
    lastCall # <<>> =>
        LET call == lastCall[1]
        IN  /\ OrdersOnce(call.chStatement)
            /\ OrdersOnce(call.pgStatement)
            /\ \A page \in Returned(call.clickhouse) :
                  /\ Len(page) <= call.params.Limit
                  /\ NonIncreasing(page)
                  /\ page \in Slices(call.chStatement, table, call.params.Limit,
                                     call.params.Offset)
            /\ \A page \in Returned(call.postgresql) :
                  /\ Len(page) <= call.params.Limit
                  /\ NonIncreasing(page)
                  /\ page \in Slices(call.pgStatement, table, call.params.Limit,
                                     call.params.Offset)

\* C13 happens: limit 1 and offset 1 over two rows stored oldest first; each
\* adapter returns the older row, alone
C13_SecondRowOfTwo ==
    /\ lastCall # <<>>
    /\ lastCall[1].req.limit = Present(1)
    /\ lastCall[1].req.offset = Present(1)
    /\ lastCall[1].req.timeRange = Absent
    /\ lastCall[1].req.content = Absent
    /\ Len(table) = 2
    /\ table[1].timestamp < table[2].timestamp
    /\ Returned(lastCall[1].clickhouse) = {<<table[1]>>}
    /\ \A page \in Returned(lastCall[1].postgresql) :
          Len(page) = 1 /\ page[1].timestamp = table[1].timestamp

\* C14: with a non-empty content filter, an event is returned iff its
\* structured text contains the filter as a literal, case-sensitive
\* substring, whatever characters the filter holds (% and _ included).
C14_ContentIsLiteralSubstring ==
    (lastCall # <<>> /\ lastCall[1].params.Content # <<>>) =>
        LET call == lastCall[1]
            window(row) ==
                call.params.TimeRange # "" =>
                    row.timestamp >= call.clock - ClaimedDuration(call.params.TimeRange)
        IN  /\ \A page \in Returned(call.clickhouse) \cup Returned(call.postgresql) :
                  \A i \in 1..Len(page) : Contains(page[i].structured, call.params.Content)
            /\ (call.req.limit = Absent /\ call.req.offset = Absent) =>
                  \A page \in Returned(call.clickhouse) \cup Returned(call.postgresql) :
                      \A k \in 1..Len(table) :
                          (window(table[k]) /\ Contains(table[k].structured, call.params.Content))
                              => \E i \in 1..Len(page) :
                                     /\ page[i].timestamp = table[k].timestamp
                                     /\ page[i].topic = table[k].topic

\* the filter of a request after the defaults: limit 100 when none or <= 0
\* was given, store clickhouse when none was given
DefaultedFilter(req) ==
    [TimeRange |-> IF req.timeRange = Absent THEN "" ELSE req.timeRange[1],
     Content   |-> IF req.content = Absent THEN <<>> ELSE req.content[1],
     Database  |-> IF req.database = Absent THEN "clickhouse" ELSE req.database[1],
     Limit     |-> IF req.limit = Absent \/ req.limit[1] <= 0 THEN 100 ELSE req.limit[1],
     Offset    |-> IF req.offset = Absent THEN 0 ELSE req.offset[1]]

\* C23: a successful answer of GET /api/events holds the events, a count
\* equal to the number of events in the list, and params equal to the
\* filter after the defaults were applied.
C23_SuccessShape ==
    lastCall # <<>> =>
        \A resp \in lastCall[1].responses :
            resp.status = 200 =>
                /\ DOMAIN resp = {"status", "events", "count", "params"}
                /\ resp.count = Len(resp.events)
                /\ resp.params = DefaultedFilter(lastCall[1].req)
                /\ resp.events \in Returned(Selected(lastCall[1]))

\* C23 happens: a request without limit and store is answered with two
\* events, count 2 and the defaults in params
C23_TwoEventsCounted ==
    /\ lastCall # <<>>
    /\ lastCall[1].req.limit = Absent
    /\ lastCall[1].req.database = Absent
    /\ \E resp \in lastCall[1].responses :
          /\ resp.status = 200
          /\ Len(resp.events) = 2 /\ resp.count = 2
          /\ resp.params.Limit = 100 /\ resp.params.Database = "clickhouse"

\* the clauses of a statement that splice a value in, in the order they
\* were appended
Splicing(stmt) == SelectSeq(stmt.text, LAMBDA c : c.ph # "")

\* the value the adapter binds for a clause
BoundFor(sql, params, clock) ==
    CASE sql = " AND timestamp >= "          -> pgLowerBound(clock, params.TimeRange)
      [] sql = " AND structured::text LIKE " -> LikePattern(params.Content)
      [] sql = " LIMIT "                     -> params.Limit
      [] sql = " OFFSET "                    -> params.Offset

\* the clauses a filter calls for, in the order the adapter appends them
ClausesFor(params) ==
    (IF params.TimeRange # "" THEN <<" AND timestamp >= ">> ELSE <<>>)
        \o (IF params.Content # <<>> THEN <<" AND structured::text LIKE ">> ELSE <<>>)
        \o (IF params.Limit > 0 THEN <<" LIMIT ">> ELSE <<>>)
        \o (IF params.Offset > 0 THEN <<" OFFSET ">> ELSE <<>>)

\* the statement numbers its placeholders $1..$n in the order of its
\* clauses, and its k-th argument is the value of the clause holding $k
Numbered(stmt, params, clock) ==
    LET numbered(spliced) ==
            /\ Len(spliced) = Len(stmt.args)
            /\ [k \in 1..Len(spliced) |-> spliced[k].sql] = ClausesFor(params)
            /\ \A k \in 1..Len(spliced) :
                  /\ spliced[k].ph = "$"
                  /\ spliced[k].n = k
                  /\ stmt.args[k] = BoundFor(spliced[k].sql, params, clock)
    IN  numbered(Splicing(stmt))

\* C24: whichever of window, content, limit and offset are present, the
\* relational statement uses $1..$n once each in the order the clauses are
\* appended, n is the number of bound arguments, the k-th argument is the
\* value for $k, and limit and offset are bound, not printed into the text.
C24_PlaceholdersNumbered ==
    lastCall # <<>> =>
        \A lim \in {lastCall[1].params.Limit, 0} : \A off \in {lastCall[1].params.Offset, 0} :
            LET holds(params) ==
                    Numbered(pgStatement(params, lastCall[1].clock), params, lastCall[1].clock)
            IN  holds([lastCall[1].params EXCEPT !.Limit = lim, !.Offset = off])

\* C24 happens: window, content, limit and offset are all present and the
\* statement binds four arguments, the offset as $4
C24_FourPlaceholders ==
    /\ lastCall # <<>>
    /\ lastCall[1].params.TimeRange # ""
    /\ lastCall[1].params.Content # <<>>
    /\ lastCall[1].params.Offset > 0
    /\ Len(lastCall[1].pgStatement.args) = 4
    /\ \E k \in 1..Len(lastCall[1].pgStatement.text) :
          lastCall[1].pgStatement.text[k] = Clause(" OFFSET ", "$", 4)

\* content strings and window tokens a second filter may hold instead
OtherContents == {<<"a">>, <<"_">>, <<"%">>, <<"'">>, <<"a", "'", ";">>}

\* the filters that differ from params at most in the value of a non-empty
\* content string, or at most in the window token
SameShape(params) ==
    {[params EXCEPT !.Content = c] :
        c \in IF params.Content = <<>> THEN {<<>>} ELSE OtherContents}
    \cup {[params EXCEPT !.TimeRange = t] :
             t \in IF params.TimeRange = "" THEN {""} ELSE Tokens}

\* the text holds no value but the integers of LIMIT and OFFSET, and one
\* argument is bound for every ? in it
BoundOnly(stmt, params) ==
    /\ \A k \in 1..Len(stmt.text) :
          /\ stmt.text[k].ph \in {"", "?", "lit"}
          /\ stmt.text[k].ph = "lit" =>
                \/ stmt.text[k].sql = " LIMIT " /\ stmt.text[k].n = params.Limit
                \/ stmt.text[k].sql = " OFFSET " /\ stmt.text[k].n = params.Offset
          /\ stmt.text[k].ph # "lit" => stmt.text[k].n = 0
    /\ Cardinality({k \in 1..Len(stmt.text) : stmt.text[k].ph = "?"}) = Len(stmt.args)

\* C25: the text of the columnar statement depends only on which predicates
\* are present and on the integers limit and offset: filters that differ
\* only in the content string or the window token give the same text, and
\* the values are bound, one argument for every ? of the text.
C25_ColumnarTextFixed ==
    lastCall # <<>> =>
        /\ BoundOnly(lastCall[1].chStatement, lastCall[1].params)
        /\ \A other \in SameShape(lastCall[1].params) :
              LET same(stmt) ==
                      /\ stmt.text = lastCall[1].chStatement.text
                      /\ Len(stmt.args) = Len(lastCall[1].chStatement.args)
                      /\ BoundOnly(stmt, other)
              IN  same(chStatement(other, lastCall[1].clock))

\* C25 happens: a statement with window and content binds two arguments,
\* the second the pattern of the content
C25_TwoArgumentsBound ==
    /\ lastCall # <<>>
    /\ lastCall[1].params.Content = <<"_">>
    /\ lastCall[1].params.TimeRange = "1d"
    /\ Len(lastCall[1].chStatement.args) = 2
    /\ lastCall[1].chStatement.args[2] = <<"%", "_", "%">>

\* the number of rows of a page of the rows that hold the content, whatever
\* their age
UnwindowedPageLength(call) ==
    LET holding == Cardinality({k \in 1..Len(table) :
                                   call.params.Content # <<>> =>
                                       Contains(table[k].structured, call.params.Content)})
        left == IF holding > call.params.Offset THEN holding - call.params.Offset ELSE 0
    IN  IF left < call.params.Limit THEN left ELSE call.params.Limit

\* C33: for a request without a timeRange token, or with an empty one,
\* neither adapter's statement has a timestamp predicate, and the rows
\* returned are bounded by content, limit and offset only; a non-empty
\* token the switch does not list is bounded by one hour.
C33_NoTokenNoWindow ==
    lastCall # <<>> =>
        LET call == lastCall[1]
            emptyToken == WithDefaults(ShouldBindQuery([call.req EXCEPT !.timeRange = Present("")]))
        IN  /\ call.req.timeRange = Absent =>
                  /\ call.params.TimeRange = ""
                  /\ Predicates(call.chStatement).since = <<>>
                  /\ Predicates(call.pgStatement).since = <<>>
                  /\ Len(call.chStatement.args) = IF call.params.Content # <<>> THEN 1 ELSE 0
                  /\ chStatement(emptyToken, call.clock) = call.chStatement
                  /\ pgStatement(emptyToken, call.clock) = call.pgStatement
                  /\ call.params.Content \in {<<>>, <<"a">>} =>
                        \A page \in Returned(call.clickhouse) \cup Returned(call.postgresql) :
                            Len(page) = UnwindowedPageLength(call)
            /\ call.req.timeRange = Present("2h") =>
                  /\ Predicates(call.chStatement).since = <<call.clock - Hour>>
                  /\ Predicates(call.pgStatement).since = <<call.clock - Hour>>

\* C33 happens: a request without a token returns, from both adapters, a
\* row older than every window of the select
C33_OldRowReturned ==
    /\ lastCall # <<>>
    /\ lastCall[1].req.timeRange = Absent
    /\ \E page \in Returned(lastCall[1].clickhouse) :
          \E i \in 1..Len(page) : page[i].timestamp < lastCall[1].clock - Hour
    /\ \E page \in Returned(lastCall[1].postgresql) :
          \E i \in 1..Len(page) : page[i].timestamp < lastCall[1].clock - Hour

\* values of the database parameter: the two the client sends, one no
\* adapter is named after, and one that differs from "clickhouse" by case
StoreValues == {"clickhouse", "postgresql", "mysql", "ClickHouse"}

\* C34: the facade calls the columnar adapter iff the store value after
\* defaulting is exactly "clickhouse", and the relational adapter for every
\* other value; one adapter is called per request.
C34_StoreDispatch ==
    lastCall # <<>> =>
        LET call == lastCall[1]
            dispatched(req) ==
                LET params == WithDefaults(ShouldBindQuery(req))
                    columnar == params.Database = "clickhouse"
                IN  /\ params.Database # ""
                    /\ req.database # Absent => params.Database = req.database[1]
                    /\ AdapterCalls(params)
                           = <<IF columnar THEN "queryClickHouse" ELSE "queryPostgreSQL">>
                    /\ Answered(getEvents(req, call.clock, table))
                           = Returned(IF columnar
                                      THEN queryClickHouse(params, call.clock, table)
                                      ELSE queryPostgreSQL(params, call.clock, table))
        IN  /\ Len(call.adapterCalls) = 1
            /\ call.adapterCalls[1] = "queryClickHouse" <=> call.params.Database = "clickhouse"
            /\ Answered(call.responses) = Returned(Selected(call))
            /\ (call.req.database = Absent /\ call.req.limit = Absent) =>
                  \A v \in StoreValues : dispatched([call.req EXCEPT !.database = Present(v)])

\* C34 happens: a request for another store is answered with what the
\* relational adapter returns, which the columnar adapter does not return
C34_RelationalAnswered ==
    /\ lastCall # <<>>
    /\ lastCall[1].req.database = Present("postgresql")
    /\ lastCall[1].adapterCalls = <<"queryPostgreSQL">>
    /\ Answered(lastCall[1].responses) = Returned(lastCall[1].postgresql)
    /\ Returned(lastCall[1].postgresql) \cap Returned(lastCall[1].clickhouse) = {}

(***************************************************************************)
(* Properties of the Charts view (SpecCharts).                             *)
(***************************************************************************)
\* the elements of a sequence
Range(seq) == {seq[n] : n \in 1..Len(seq)}

RECURSIVE Leaves(_, _)
\* the scalar leaves of a document with their paths: an object key extends
\* the path with a dot segment, an array index with a bracketed index
Leaves(value, path) ==
    IF value.t = "obj"
    THEN UNION {Leaves(value.v[n].v,
                       IF path # <<>> THEN path \o <<".">> \o value.v[n].k ELSE value.v[n].k) :
                   n \in 1..Len(value.v)}
    ELSE IF value.t = "arr"
         THEN UNION {Leaves(value.v[n], path \o <<"[">> \o NatText(n - 1) \o <<"]">>) :
                        n \in 1..Len(value.v)}
    ELSE IF path = <<>> THEN {}
    ELSE {[path |-> path, leaf |-> value]}

\* the text is a number from its first character to its last
FullyNumeric(text) ==
    LET whole(d) == d.ok /\ d.next > Len(text)
    IN  whole(Decimal(text, 1, TRUE))

\* a leaf that is a number, or a string that parses fully as a finite number
NumericLeaf(leaf) == leaf.t = "num" \/ (leaf.t = "str" /\ FullyNumeric(leaf.v))

\* the paths of the numeric leaves of the documents of a batch
NumericPaths(batch) ==
    LET paths(docs) ==
            {l.path : l \in {x \in UNION {Leaves(docs[n].parsed, <<>>) : n \in 1..Len(docs)} :
                                NumericLeaf(x.leaf)}}
    IN  paths(ParsedOf(batch))

\* C15: a path is discovered iff the leaf at that path is a number or a
\* string that parses fully as a finite number, array elements included and
\* strings with only a numeric prefix excluded.
C15_LeafRule ==
    chartEvents # <<>> => Range(availableFields) = NumericPaths(chartEvents)

\* the string leaves of the documents of a batch, by kind
StringPaths(batch, numeric) ==
    LET paths(docs) ==
            {l.path : l \in {x \in UNION {Leaves(docs[n].parsed, <<>>) : n \in 1..Len(docs)} :
                                x.leaf.t = "str" /\ FullyNumeric(x.leaf.v) = numeric}}
    IN  paths(ParsedOf(batch))

\* the paths the code discovers in each event, united
DiscoveredUnion(batch) ==
    LET union(docs) == UNION {extractNestedFields(docs[n].parsed, <<>>) : n \in 1..Len(docs)}
    IN  union(ParsedOf(batch))

\* C16: discovery returns the union of the paths discovered in every event,
\* without duplicates, in lexicographic order, the same for every permutation
\* of the batch; a numeric string leaf is included, a non-numeric string leaf
\* never is.
C16_DiscoveryDeterministic ==
    chartEvents # <<>> =>
        /\ Range(availableFields) = DiscoveredUnion(chartEvents)
        /\ \A n \in 1..(Len(availableFields) - 1) :
              TextLess(availableFields[n], availableFields[n + 1])
        /\ \A p \in PermsOf(chartEvents) : extractFields(p) = availableFields
        /\ StringPaths(chartEvents, TRUE) \subseteq Range(availableFields)
        /\ StringPaths(chartEvents, FALSE) \cap Range(availableFields) = {}

\* the number an event has for a field, or NaN when it has none
NumberAt(parsed, field) ==
    LET coerce(value) ==
            IF value.t = "num" THEN value
            ELSE IF value.t \in {"undefined", "null"} THEN JNaN
            ELSE parseFloatText(JsString(value))
        finite(number) == IF ~isNaN(number) /\ isFinite(number) THEN number ELSE JNaN
    IN  finite(coerce(getNestedValue(parsed, field)))

RECURSIVE BucketSum(_, _, _)
\* the sum of a field over the documents at one instant that have it
BucketSum(docs, field, ms) ==
    LET add(number, rest) ==
            IF Head(docs).timestamp # ms \/ isNaN(number) THEN rest
            ELSE [has |-> TRUE, sum |-> rest.sum + number.v]
    IN  IF docs = <<>> THEN [has |-> FALSE, sum |-> 0]
        ELSE add(NumberAt(Head(docs).parsed, field), BucketSum(Tail(docs), field, ms))

\* the instants of the documents, and the n-th of them in ascending order
Instants(docs) == {docs[n].timestamp : n \in 1..Len(docs)}

NthInstant(docs, n) ==
    CHOOSE ms \in Instants(docs) : Cardinality({t \in Instants(docs) : t < ms}) = n - 1

\* the points the documents aggregate to: one per instant, holding for each
\* selected field the sum over the documents of the instant that have it
SummedPoints(docs, fields) ==
    /\ Len(chartData) = Cardinality(Instants(docs))
    /\ \A n \in 1..Len(chartData) : \A i \in 1..Len(fields) :
          LET holds(bucket) ==
                  IF bucket.has
                  THEN fields[i] \in DOMAIN chartData[n]
                          /\ chartData[n][fields[i]] = JNum(bucket.sum)
                  ELSE fields[i] \notin DOMAIN chartData[n]
          IN  holds(BucketSum(docs, fields[i], NthInstant(docs, n)))

\* C17: events with the same millisecond timestamp are merged into one
\* point whose value for each selected field is the sum of the field over
\* the events that have it; an event without the field leaves it unchanged.
C17_BucketsSummed ==
    (chartEvents # <<>> /\ selectedFields # <<>>) =>
        SummedPoints(ParsedOf(chartEvents), selectedFields)

\* HH:MM:SS of an instant on the twenty-four-hour clock of UTC
FixedClock(ms) ==
    LET text(second) ==
            TwoDigits(second \div 3600) \o <<":">> \o TwoDigits((second \div 60) % 60)
                \o <<":">> \o TwoDigits(second % 60)
    IN  text((ms \div 1000) % 86400)

\* the points follow the instants in ascending order, each labelled with
\* the fixed clock of its instant and without a timestamp
AscendingLabelled(docs) ==
    /\ Len(chartData) = Cardinality(Instants(docs))
    /\ \A n \in 1..Len(chartData) :
          /\ TimestampKey \notin DOMAIN chartData[n]
          /\ TimeKey \in DOMAIN chartData[n]
          /\ chartData[n][TimeKey] = JStr(FixedClock(NthInstant(docs, n)))

\* C18: the emitted points are in strictly ascending order of timestamp,
\* carry no timestamp field and are labelled HH:MM:SS independently of the
\* locale; the three-row scenario with field a selected gives exactly
\* (00:00:01, a = 3), (00:00:02, a = 5).
C18_AggregationOutput ==
    (chartEvents # <<>> /\ selectedFields # <<>>) =>
        /\ AscendingLabelled(ParsedOf(chartEvents))
        /\ (chartEvents = ScenarioBatch /\ selectedFields = <<<<"a">>>>) =>
              chartData = <<(TimeKey :> JStr(FixedClock(1000))) @@ (<<"a">> :> JNum(30)),
                            (TimeKey :> JStr(FixedClock(2000))) @@ (<<"a">> :> JNum(50))>>

\* the events of a batch whose structured text is valid JSON
WellFormed(batch) ==
    SelectSeq(batch, LAMBDA event : event.structured # <<>> /\ JSONParse(event.structured).ok)

C20_FailedFetchSetsError ==
    [][\A r \in Outstanding : \A resp \in Responses(r) :
          (Rejected(resp) /\ (FirstPageSettles(r, resp) \/ NextPageSettles(r, resp))) =>
              /\ error' # ""
              /\ inflight' = Settle(r)]_vars

\* the step sends the first-page fetch of the current filter
StartsFirstPage(r) ==
    /\ r.f = CurrentFilter
    /\ inflight' = Settle(r) (+) SetToBag({Request("first", CurrentFilter, 0, epoch)})
    /\ loading'

\* some filter input differs from the current filter and can be changed
FilterChangeEnabled ==
    /\ \A v \in TimeRanges \ {timeRange} : ENABLED SetTimeRange(v)
    /\ \A v \in Databases \ {database} : ENABLED SetDatabase(v)
    /\ \A v \in ContentInputs \ {contentFilter} : ENABLED SetContentFilter(v)
    /\ \A v \in TopicInputs \ {topicFilter} : ENABLED SetTopicFilter(v)

\* C21 as stated: whatever failed before, a filter change starts a new
\* first-page fetch for the new filter, however its health check settles,
\* and the error shown is cleared when the fetch starts.
C21_FilterChangeStartsFetch ==
    [][\A r \in Outstanding :
          (/\ r.kind = "health" /\ r.ep = epoch /\ epoch > 0 /\ afterFailure
           /\ (HealthOk(r) \/ HealthFailed(r))) =>
              (StartsFirstPage(r) /\ error' = "")]_vars

\* C21, amended: no failure disables the filter inputs; a filter change
\* sends a health check for the new filter; when that check is answered the
\* first-page fetch of the new filter starts and the error shown is
\* cleared; when it fails no fetch starts and the connection error is shown.
C21_NoFailureIsTerminal ==
    [][/\ ((error # "" \/ failedFetch) /\ CanChange) => FilterChangeEnabled
       /\ epoch' # epoch =>
              inflight' = Send(Request("health", CurrentFilter', 0, epoch'))
       /\ \A r \in Outstanding :
             (r.kind = "health" /\ r.ep = epoch) =>
                 /\ HealthOk(r) => (StartsFirstPage(r) /\ error' = "")
                 /\ HealthFailed(r) => (inflight' = Settle(r) /\ error' # "")]_vars

\* C21 happens: the filter was changed while a failure was on the screen,
\* and the first-page fetch of the new filter is running with no error shown
C21_FetchAfterFailure ==
    /\ afterFailure
    /\ epoch > 0
    /\ Request("first", CurrentFilter, 0, epoch) \in Outstanding
    /\ loading
    /\ error = ""

\* C29: whenever no events fetch is outstanding and more pages remain, the
\* next-page offset is the number of events in the buffer.
C29_OffsetIsBufferLength ==
    (EventFetches = {} /\ hasMore) => offset = Len(events)

\* the timestamps of the seed rows matching the filter, newest first (the
\* seed rows have distinct timestamps and are stored newest first)
MatchingInstants(f) ==
    LET matching == SelectSeq(SeedTable, LAMBDA row : MatchesFilter(row, f))
    IN  [i \in 1..Len(matching) |-> matching[i].timestamp]

BufferInstants == [i \in 1..Len(events) |-> events[i].timestamp]

NoEventTwice == \A i, j \in 1..Len(events) : events[i] = events[j] => i = j

\* C30: under one filter, after the first page and any scroll triggers and
\* fetch completions, the buffer holds no event twice and is a prefix of the
\* events matching the filter, newest first.
C30_BufferIsPrefix ==
    (steady /\ ~loading) =>
        /\ NoEventTwice
        /\ Len(events) <= Len(MatchingInstants(CurrentFilter))
        /\ BufferInstants = SubSeq(MatchingInstants(CurrentFilter), 1, Len(events))

\* C37: the mount and every filter change send a health check and no
\* events request; the first-page fetch of that filter is sent when the
\* check is answered; when the check fails no events request is sent, an
\* error is set, loading is false and the buffer, the offset and hasMore
\* are left as they are.
C37_HealthGate ==
    /\ inflight = SetToBag({Request("health", CurrentFilter, 0, 0)})
    /\ [][/\ epoch' # epoch =>
                /\ inflight' = Send(Request("health", CurrentFilter', 0, epoch'))
                /\ UNCHANGED <<events, loading, loadingMore, error, offset, hasMore>>
          /\ \A r \in Outstanding :
                r.kind = "health" =>
                    /\ HealthOk(r) =>
                           /\ inflight' = Settle(r) (+) SetToBag({Request("first", r.f, 0, r.ep)})
                           /\ loading'
                    /\ HealthFailed(r) =>
                           /\ inflight' = Settle(r)
                           /\ error' # ""
                           /\ ~loading'
                           /\ UNCHANGED <<events, offset, hasMore>>]_vars

\* C37 happens: the health check of a filter change has failed, and the
\* buffer of the filter before is still shown beside the error
C37_GateClosed ==
    /\ epoch > 0
    /\ inflight = EmptyBag
    /\ error = "Cannot connect to backend server"
    /\ ~loading
    /\ events # <<>> /\ offset = Len(events) /\ hasMore

(***************************************************************************)
(* Properties of a session with 4xx answers (SpecStatus).                  *)
(***************************************************************************)
\* every way an events request may settle
Answers(r) == Responses(r) \cup ClientErrors

\* C32: an events response with a 4xx status is an empty page: the error
\* is left as it is, a first-page fetch leaves the buffer empty and a
\* next-page fetch adds nothing, and hasMore becomes false; a response with
\* no status or a status from 500 on sets the error of a first-page fetch.
C32_ClientErrorIsEmptyPage ==
    [][\A r \in Outstanding : \A resp \in Answers(r) :
          /\ (FirstPageSettles(r, resp) /\ resp.status \in 400..499) =>
                 error' = error /\ events' = <<>> /\ ~hasMore' /\ ~loading'
          /\ (NextPageSettles(r, resp) /\ resp.status \in 400..499) =>
                 error' = error /\ events' = events /\ ~hasMore' /\ ~loadingMore'
          /\ (FirstPageSettles(r, resp) /\ resp.status \in 200..499) => error' = error
          /\ (FirstPageSettles(r, resp) /\ (resp.status = 0 \/ resp.status >= 500)) =>
                 error' # "" /\ events' = <<>> /\ hasMore' = hasMore
          /\ (NextPageSettles(r, resp) /\ (resp.status = 0 \/ resp.status >= 500)) =>
                 events' = events /\ hasMore' = hasMore /\ offset' = offset]_vars

\* the mount's first page was answered with a 4xx status
C32_EmptyAfterClientError ==
    /\ epoch = 0 /\ inflight = EmptyBag
    /\ ~loading /\ ~hasMore /\ events = <<>> /\ error = "" /\ ~failedFetch

(***************************************************************************)
(* Properties of a session whose requests all settle (SpecLive).           *)
(***************************************************************************)
\* the number of requests of a kind that are outstanding
InFlightOfKind(kind) ==
    BagCardinality([r \in OfKind(kind) |-> CopiesIn(r, inflight)])

\* C22: no fetch hangs: every issued fetch completes, with success or with
\* failure; when it completes, the flag it set (loading for a first page,
\* loadingMore for a next page) is false; the controller does not stay in a
\* fetching state forever.
C22_NoFetchHangs ==
    /\ [][\A r \in Outstanding : \A resp \in Responses(r) :
             /\ FirstPageSettles(r, resp) => ~loading'
             /\ NextPageSettles(r, resp) => ~loadingMore']_vars
    /\ loading ~> ~loading
    /\ loadingMore ~> ~loadingMore
    /\ \A kind \in Kinds : \A n \in 1..MaxInFlight :
          (InFlightOfKind(kind) = n) ~> (InFlightOfKind(kind) # n)

\* C22 happens: a next-page fetch has failed, nothing is outstanding and
\* both flags are false
C22_SettledAfterFailure ==
    /\ failedFetch
    /\ events # <<>>
    /\ inflight = EmptyBag
    /\ ~loading
    /\ ~loadingMore

\* two arrays of points are the same: as many points, each with the same
\* keys and, under each key, a value of the same kind and content
SamePoints(a, b) ==
    /\ Len(a) = Len(b)
    /\ \A n \in 1..Len(a) :
          /\ DOMAIN a[n] = DOMAIN b[n]
          /\ \A k \in DOMAIN a[n] : a[n][k].t = b[n][k].t /\ a[n][k].v = b[n][k].v

\* C35: the points of a batch are those of every permutation of the batch,
\* in the same order.
C35_OrderIndependent ==
    (chartEvents # <<>> /\ selectedFields # <<>>) =>
        \A permuted \in PermsOf(chartEvents) :
            SamePoints(prepareChartData(permuted, selectedFields, zone), chartData)

(***************************************************************************)
(* Properties of path resolution (SpecPaths).                              *)
(***************************************************************************)
\* the segment is written with digits only
IsInteger(segment) ==
    segment # <<>> /\ \A n \in 1..Len(segment) : IsDigit(segment[n])

RECURSIVE Resolve(_, _)
\* the value at the end of the segments: arrays are indexed by an integer
\* segment, objects by key, and anything else has nothing below it
Resolve(value, segments) ==
    LET element(index) ==
            IF index < Len(value.v) THEN Resolve(value.v[index + 1], Tail(segments))
            ELSE JUndefined
    IN  IF segments = <<>> THEN value
        ELSE IF value.t = "arr"
             THEN (IF IsInteger(Head(segments))
                   THEN element(NatOf(Head(segments), 1, Len(Head(segments)) + 1))
                   ELSE JUndefined)
        ELSE IF value.t = "obj"
             THEN (IF \E n \in 1..Len(value.v) : value.v[n].k = Head(segments)
                   THEN Resolve(Property(value, Head(segments)), Tail(segments))
                   ELSE JUndefined)
        ELSE JUndefined

\* the number a resolved value stands for, or NaN when it stands for none
Coerced(value) ==
    LET finite(number) == IF ~isNaN(number) /\ isFinite(number) THEN number ELSE JNaN
    IN  finite(IF value.t = "num" THEN value
               ELSE IF value.t \in {"undefined", "null"} THEN JNaN
               ELSE parseFloatText(JsString(value)))

\* C26: a field path is resolved segment by segment, arrays indexed by an
\* integer segment and objects by key; the result is absent as soon as the
\* current value is null or a scalar, the segment is not an integer while
\* the current value is an array, or the index or key does not exist; a
\* resolved value that is no finite number is absent from the point.
C26_PathTraversal ==
    (chartEvents # <<>> /\ selectedFields # <<>>) =>
        LET docs == ParsedOf(chartEvents)
        IN  /\ Len(chartData) = Len(docs)
            /\ \A n \in 1..Len(docs) : \A i \in 1..Len(selectedFields) :
                  LET agree(found, claimed) ==
                          /\ found.t = claimed.t /\ found.v = claimed.v
                          /\ IF isNaN(Coerced(claimed))
                             THEN selectedFields[i] \notin DOMAIN chartData[n]
                             ELSE /\ selectedFields[i] \in DOMAIN chartData[n]
                                  /\ chartData[n][selectedFields[i]] = Coerced(claimed)
                  IN  agree(getNestedValue(docs[n].parsed, selectedFields[i]),
                            Resolve(docs[n].parsed, SplitPath(selectedFields[i], <<>>)))

(***************************************************************************)
(* Properties of discovery and resolution together (SpecKeys).             *)
(***************************************************************************)
RECURSIVE DiscoveredLeaves(_, _)
\* the paths extractNestedFields adds, each with the member value that made
\* it add the path
DiscoveredLeaves(obj, prefix) ==
    LET member(value, fieldPath) ==
            IF <<"m">> \in extractNestedFields(JObj(<<Member(<<"m">>, value)>>), <<>>)
            THEN {[path |-> fieldPath, leaf |-> value]}
            ELSE IF value.t \in {"obj", "arr"} THEN DiscoveredLeaves(value, fieldPath)
            ELSE {}
    IN  IF obj.t = "arr"
        THEN UNION {DiscoveredLeaves(obj.v[n], prefix \o <<"[">> \o NatText(n - 1) \o <<"]">>) :
                       n \in 1..Len(obj.v)}
        ELSE IF obj.t = "obj"
             THEN UNION {member(obj.v[n].v,
                                IF prefix # <<>> THEN prefix \o <<".">> \o obj.v[n].k
                                ELSE obj.v[n].k) :
                            n \in 1..Len(obj.v)}
        ELSE {}

\* C31: every path discovered in an event's document resolves, in that
\* document, to the numeric leaf it was discovered for.
C31_DiscoveryRoundTrip ==
    chartEvents # <<>> =>
        \A doc \in Range(ParsedOf(chartEvents)) :
            /\ {d.path : d \in DiscoveredLeaves(doc.parsed, <<>>)}
                   = extractNestedFields(doc.parsed, <<>>)
            /\ \A d \in DiscoveredLeaves(doc.parsed, <<>>) :
                  LET same(found) == found.t = d.leaf.t /\ found.v = d.leaf.v
                  IN  same(getNestedValue(doc.parsed, d.path))

\* no selected field resolves to a finite number in the document
NothingCharted(parsed) ==
    \A i \in 1..Len(selectedFields) :
        isNaN(Coerced(getNestedValue(parsed, selectedFields[i])))

\* C36: there are as many points as distinct instants among the events
\* whose structured text is non-empty JSON; an instant none of whose events
\* has a number for a selected field has a point of its time label alone.
C36_BucketCount ==
    (chartEvents # <<>> /\ selectedFields # <<>>) =>
        LET docs == ParsedOf(chartEvents)
            instants == {docs[n].timestamp : n \in 1..Len(docs)}
            bare(ms) == \A n \in 1..Len(docs) :
                            docs[n].timestamp = ms => NothingCharted(docs[n].parsed)
        IN  /\ Len(docs) = Len(WellFormed(chartEvents))
            /\ Len(chartData) = Cardinality(instants)
            /\ \A ms \in instants :
                  bare(ms) =>
                      \E n \in 1..Len(chartData) :
                          /\ DOMAIN chartData[n] = {TimeKey}
                          /\ chartData[n][TimeKey] = JStr(toLocaleTimeString(ms, zone))

\* C36 happens: of two events of different instants one has no number for
\* the selected field, and there are two points, one of its label alone
C36_PointWithoutValues ==
    /\ Len(chartEvents) = 2 /\ selectedFields = <<<<"x">>>>
    /\ Len(chartData) = 2
    /\ \E n \in 1..2 : DOMAIN chartData[n] = {TimeKey}
    /\ \E n \in 1..2 : DOMAIN chartData[n] # {TimeKey}

(***************************************************************************)
(* Properties of the Charts view over a changing store (SpecRefetch).      *)
(***************************************************************************)
\* the points the documents aggregate to, by documents of distinct
\* instants: each holds the label of its instant and, for every selected
\* field, the number its document has for it
Aggregated(docs, fields) ==
    /\ Len(chartData) = Len(docs)
    /\ \A n \in 1..Len(docs) :
          /\ DOMAIN chartData[n] \subseteq {TimeKey} \cup Range(fields)
          /\ chartData[n][TimeKey] = JStr(toLocaleTimeString(docs[n].timestamp, zone))
          /\ \A i \in 1..Len(fields) :
                LET holds(number) ==
                        IF isNaN(number) THEN fields[i] \notin DOMAIN chartData[n]
                        ELSE /\ fields[i] \in DOMAIN chartData[n]
                             /\ chartData[n][fields[i]] = number
                IN  holds(NumberAt(docs[n].parsed, fields[i]))

\* C27: after any sequence of fetches and toggles the series is the
\* aggregation of the current batch over the current selection, and it is
\* empty whenever the batch is empty or no field is selected: nothing of an
\* earlier batch or an earlier selection is left in it.
C27_SeriesRecomputed ==
    IF chartEvents # <<>> /\ selectedFields # <<>>
    THEN /\ chartData = prepareChartData(chartEvents, selectedFields, zone)
         /\ Aggregated(ParsedOf(chartEvents), selectedFields)
    ELSE chartData = <<>>

\* C27 happens: the batch on the screen was fetched after another one, from
\* which the selected field remains, and its two points hold no value
C27_SeriesOfSecondBatch ==
    /\ chartEvents # <<>>
    /\ selectedFields # <<>>
    /\ \A i \in 1..Len(selectedFields) : selectedFields[i] \notin Range(availableFields)
    /\ Len(chartData) = 2
    /\ \A n \in 1..2 : DOMAIN chartData[n] = {TimeKey}

\* C28: a successful fetch replaces the field list by the fields discovered
\* in the batch just fetched, sorted, with nothing of an earlier batch; when
\* no field is selected at that moment and the list is not empty, its first
\* path becomes the selection.
C28_CatalogueFresh ==
    [][ChartsFetchSettles =>
          /\ chartEvents' = chartStore
          /\ Range(availableFields') = DiscoveredUnion(chartStore)
          /\ \A n \in 1..(Len(availableFields') - 1) :
                TextLess(availableFields'[n], availableFields'[n + 1])
          /\ (selectedFields = <<>> /\ availableFields' # <<>>) =>
                selectedFields' = <<availableFields'[1]>>]_vars

\* C28 happens: the list on the screen holds the fields of the batch just
\* fetched and not the field selected in an earlier batch
C28_ListOfSecondBatch ==
    /\ chartEvents # <<>>
    /\ chartEvents = chartStore
    /\ availableFields # <<>>
    /\ selectedFields # <<>>
    /\ Range(selectedFields) \cap Range(availableFields) = {}


====
